---- MODULE Spec2Model ----
(***************************************************************************)
(* The wikipedia harvester of crates/get_wikipedia_info: the raw table     *)
(* harvester, the URL relevance classifier, the field canonicalizer and    *)
(* the bounded producer/consumer writer pipelines of get_works and         *)
(* get_composers.                                                          *)
(*                                                                         *)
(* A string is a sequence of characters; a character is a one-character    *)
(* TLA+ string, a character outside ASCII is written by its code point     *)
(* ("U+00E9").  Fixed pieces of markup and of JSON syntax that no string   *)
(* operation looks into are single elements ("<tr>", "{\"title\":").       *)
(***************************************************************************)
EXTENDS Integers, Sequences, FiniteSets, TLC

----------------------------------------------------------------------------
(* Bounds of the model *)

\* how many times get_works / get_composers are invoked in one behaviour
MaxRuns == 2

\* how many complete lines the BufWriter's buffer holds before it spills
BufLines == 1

\* how many records beyond the channel capacity the long page carries
Extra == 2

\* the cells of a row given to determine_source_url: 0..MaxCells
MaxCells == 2

\* the rows of a table given to extract_raw_table_data: 0..MaxRows
MaxRows == 3

(* Program constants *)

\* mpsc::channel(100)
ChannelCapacity == 100

\* composition.title.len() > 2
MinTitleLen == 2

\* main calls get_works once
Invocations == 1

----------------------------------------------------------------------------
(* Strings *)

UpperChars ==
  <<"A", "B", "C", "D", "E", "F", "G", "H", "I", "J", "K", "L", "M", "N", "O",
    "P", "Q", "R", "S", "T", "U", "V", "W", "X", "Y", "Z", "U+00C9">>

LowerChars ==
  <<"a", "b", "c", "d", "e", "f", "g", "h", "i", "j", "k", "l", "m", "n", "o",
    "p", "q", "r", "s", "t", "u", "v", "w", "x", "y", "z", "U+00E9">>

Digits == <<"0", "1", "2", "3", "4", "5", "6", "7", "8", "9">>

\* characters that take two and three bytes in UTF-8 (the others of the
\* model's alphabet are ASCII)
TwoByteChars == {"U+00C9", "U+00E9"}

ThreeByteChars == {"U+2013", "U+266D", "U+266F"}

Range(s) == {s[i] : i \in 1..Len(s)}

\* a sequence given element by element, as a tuple (Vec::collect)
Collect(f) == SubSeq(f, 1, Len(f))

IsDigit(c) == c \in Range(Digits)

IsUpper(c) == c \in Range(UpperChars)

IsLower(c) == c \in Range(LowerChars)

\* [a-z]
IsAsciiLower(c) == IsLower(c) /\ c # "U+00E9"

\* \w of the regex crate: letters, digits and the underscore
IsWordChar(c) == IsDigit(c) \/ IsUpper(c) \/ IsLower(c) \/ c = "_"

IsSpace(c) == c \in {" ", "\t", "\n", "\r"}

\* the lower-case form of each upper-case character
LowerOf ==
  [c \in Range(UpperChars) |->
     LowerChars[CHOOSE i \in 1..Len(UpperChars) : UpperChars[i] = c]]

CharLower(c) == IF c \in DOMAIN LowerOf THEN LowerOf[c] ELSE c

\* str::to_lowercase
to_lowercase(s) == Collect([i \in 1..Len(s) |-> CharLower(s[i])])

Utf8Width(c) ==
  IF c \in TwoByteChars THEN 2 ELSE IF c \in ThreeByteChars THEN 3 ELSE 1

RECURSIVE SumWidths(_, _)
SumWidths(s, i) == IF i > Len(s) THEN 0 ELSE Utf8Width(s[i]) + SumWidths(s, i + 1)

\* String::len: the length in bytes of the UTF-8 encoding
len(s) == SumWidths(s, 1)

\* the number of characters (s.chars().count())
CharCount(s) == Len(s)

\* String::is_empty
is_empty(s) == len(s) = 0

\* str::starts_with
starts_with(s, p) == Len(p) <= Len(s) /\ SubSeq(s, 1, Len(p)) = p

\* the substring of s at positions i+1 .. i+Len(p) is p
MatchAt(s, i, p) == i + Len(p) <= Len(s) /\ SubSeq(s, i + 1, i + Len(p)) = p

\* str::contains
contains(s, p) == \E i \in 0..(Len(s) - Len(p)) : MatchAt(s, i, p)

\* str::replace of one character by another
replace(s, from, to) ==
  Collect([i \in 1..Len(s) |-> IF s[i] = from THEN to ELSE s[i]])

\* str::trim: drop leading and trailing white space
trim(s) ==
  LET keep == {i \in 1..Len(s) : ~IsSpace(s[i])}
  IN  IF keep = {} THEN <<>>
      ELSE SubSeq(s, CHOOSE i \in keep : \A j \in keep : i <= j,
                     CHOOSE i \in keep : \A j \in keep : j <= i)

RECURSIVE ConcatFrom(_, _)
\* the concatenation of the strings ss[k], ss[k + 1], ..
ConcatFrom(ss, k) ==
  IF k > Len(ss) THEN <<>>
  ELSE IF k = Len(ss) THEN ss[k]
  ELSE ss[k] \o ConcatFrom(ss, k + 1)

\* the concatenation of a sequence of strings
Concat(ss) == ConcatFrom(Collect(ss), 1)

\* usize formatted with {} : the decimal digits
RECURSIVE format_usize(_)
format_usize(n) ==
  IF n < 10 THEN <<Digits[n + 1]>>
  ELSE format_usize(n \div 10) \o <<Digits[(n % 10) + 1]>>

DigitValue(c) == (CHOOSE i \in 1..10 : Digits[i] = c) - 1

RECURSIVE parse_usize_at(_, _)
\* the number written by the digits s[1..k]
parse_usize_at(s, k) ==
  IF k = 0 THEN 0 ELSE 10 * parse_usize_at(s, k - 1) + DigitValue(s[k])

----------------------------------------------------------------------------
(* URL relevance classifier (works.rs, determine_source_url) *)

\* let base_url = "https://en.wikipedia.org"
BaseUrl ==
  <<"h", "t", "t", "p", "s", ":", "/", "/", "e", "n", ".", "w", "i", "k", "i", "p", "e", "d", "i", "a", ".", "o", "r", "g">>

\* the prefix of a relative link: href.starts_with("/wiki/")
WikiPrefix == <<"/", "w", "i", "k", "i", "/">>

\* the prefix the anchor selector a[href^="/wiki"] asks for
SelectorPrefix == <<"/", "w", "i", "k", "i">>

composition_indicators ==
  <<<<"s", "y", "m", "p", "h", "o", "n", "y">>,
    <<"s", "o", "n", "a", "t", "a">>,
    <<"c", "o", "n", "c", "e", "r", "t", "o">>,
    <<"q", "u", "a", "r", "t", "e", "t">>,
    <<"q", "u", "i", "n", "t", "e", "t">>,
    <<"t", "r", "i", "o">>,
    <<"p", "r", "e", "l", "u", "d", "e">>,
    <<"f", "u", "g", "u", "e">>,
    <<"e", "t", "u", "d", "e">>,
    <<"n", "o", "c", "t", "u", "r", "n", "e">>,
    <<"w", "a", "l", "t", "z">>,
    <<"m", "a", "z", "u", "r", "k", "a">>,
    <<"o", "v", "e", "r", "t", "u", "r", "e">>,
    <<"s", "u", "i", "t", "e">>,
    <<"v", "a", "r", "i", "a", "t", "i", "o", "n">>,
    <<"f", "a", "n", "t", "a", "s", "i", "a">>,
    <<"r", "h", "a", "p", "s", "o", "d", "y">>,
    <<"m", "a", "s", "s">>,
    <<"r", "e", "q", "u", "i", "e", "m">>,
    <<"c", "a", "n", "t", "a", "t", "a">>,
    <<"o", "r", "a", "t", "o", "r", "i", "o">>,
    <<"o", "p", "e", "r", "a">>,
    <<"s", "o", "n", "g">>,
    <<"l", "i", "e", "d">>,
    <<"c", "h", "a", "n", "s", "o", "n">>,
    <<"a", "r", "i", "a">>,
    <<"d", "u", "e", "t">>,
    <<"m", "o", "v", "e", "m", "e", "n", "t">>,
    <<"p", "i", "e", "c", "e">>,
    <<"w", "o", "r", "k">>,
    <<"c", "o", "m", "p", "o", "s", "i", "t", "i", "o", "n">>,
    <<"o", "p", ".">>,
    <<"o", "p", "u", "s">>,
    <<"n", "o", ".">>,
    <<"n", "u", "m", "b", "e", "r">>,
    <<"k", ".">>,
    <<"b", "w", "v">>,
    <<"h", "o", "b", ".">>,
    <<"w", "o", "o">>>>

non_composition_indicators ==
  <<<<"c", "a", "t", "e", "g", "o", "r", "y", ":">>,
    <<"f", "i", "l", "e", ":">>,
    <<"t", "e", "m", "p", "l", "a", "t", "e", ":">>,
    <<"u", "s", "e", "r", ":">>,
    <<"t", "a", "l", "k", ":">>,
    <<"w", "i", "k", "i", "p", "e", "d", "i", "a", ":">>,
    <<"p", "o", "r", "t", "a", "l", ":">>,
    <<"h", "e", "l", "p", ":">>,
    <<"s", "p", "e", "c", "i", "a", "l", ":">>,
    <<"l", "i", "s", "t", "_", "o", "f">>,
    <<"d", "i", "s", "c", "o", "g", "r", "a", "p", "h", "y">>,
    <<"b", "i", "o", "g", "r", "a", "p", "h", "y">>,
    <<"c", "h", "r", "o", "n", "o", "l", "o", "g", "y">>,
    <<"t", "i", "m", "e", "l", "i", "n", "e">>,
    <<"g", "e", "n", "r", "e">>,
    <<"s", "t", "y", "l", "e">>,
    <<"p", "e", "r", "i", "o", "d">>,
    <<"e", "r", "a">>,
    <<"i", "n", "s", "t", "r", "u", "m", "e", "n", "t">>,
    <<"o", "r", "c", "h", "e", "s", "t", "r", "a">>,
    <<"e", "n", "s", "e", "m", "b", "l", "e">>,
    <<"c", "o", "n", "s", "e", "r", "v", "a", "t", "o", "r", "y">>,
    <<"m", "u", "s", "i", "c", "_", "s", "c", "h", "o", "o", "l">>,
    <<"u", "n", "i", "v", "e", "r", "s", "i", "t", "y">>,
    <<"c", "o", "l", "l", "e", "g", "e">>>>

is_likely_composition_url(url) ==
  LET url_lower == to_lowercase(url)
  IN  \E k \in 1..Len(composition_indicators) :
        contains(url_lower, composition_indicators[k])

is_likely_non_composition_url(url) ==
  LET url_lower == to_lowercase(url)
  IN  \E k \in 1..Len(non_composition_indicators) :
        contains(url_lower, non_composition_indicators[k])

\* A table cell (td) is [text |-> the cell's text content,
\*                       anchors |-> the href of each <a href> in it, in
\*                                   document order,
\*                       html |-> its markup].
\* cell.select(a_selector): the anchors whose href starts with "/wiki".
select_a(cell) ==
  SelectSeq(cell.anchors, LAMBDA href : starts_with(href, SelectorPrefix))

\* if href.starts_with("/wiki/") { format!("{}{}", base_url, href) } else { href }
full_url_of(href, base_url) ==
  IF starts_with(href, WikiPrefix) THEN base_url \o href ELSE href

\* every selected link of the row, resolved, cell by cell and link by link
row_links(cells, base_url) ==
  Concat([i \in 1..Len(cells) |->
            LET selected == select_a(cells[i])
            IN  Collect([j \in 1..Len(selected) |-> full_url_of(selected[j], base_url)])])

\* the index of the first URL of the sequence that is in the set, 0 if none
FirstIndex(urls, accepted) ==
  LET hits == {i \in 1..Len(urls) : urls[i] \in accepted}
  IN  IF hits = {} THEN 0 ELSE CHOOSE i \in hits : \A j \in hits : i <= j

\* determine_source_url with a first step that returns the first link of the
\* first cell whatever it looks like
determine_source_url_first_cell_wins(cells, page_url, base_url) ==
  LET first_link == IF cells # <<>> /\ select_a(cells[1]) # <<>>
                    THEN <<full_url_of(select_a(cells[1])[1], base_url)>>
                    ELSE <<>>
      links == row_links(cells, base_url)
      s2 == FirstIndex(links, {u \in Range(links) : is_likely_composition_url(u)})
      s3 == FirstIndex(links, {u \in Range(links) : ~is_likely_non_composition_url(u)})
  IN  IF first_link # <<>> THEN first_link[1]
      ELSE IF s2 # 0 THEN links[s2]
      ELSE IF s3 # 0 THEN links[s3]
      ELSE page_url

\* determine_source_url without its second strategy
determine_source_url_two_strategies(cells, page_url, base_url) ==
  LET first_link == IF cells # <<>> /\ select_a(cells[1]) # <<>>
                    THEN <<full_url_of(select_a(cells[1])[1], base_url)>>
                    ELSE <<>>
      links == row_links(cells, base_url)
      s3 == FirstIndex(links, {u \in Range(links) : ~is_likely_non_composition_url(u)})
  IN  IF first_link # <<>> /\ is_likely_composition_url(first_link[1])
      THEN first_link[1]
      ELSE IF s3 # 0 THEN links[s3]
      ELSE page_url

determine_source_url(cells, page_url, base_url) ==
  LET \* cells.first() and its first selected link
      first_link == IF cells # <<>> /\ select_a(cells[1]) # <<>>
                    THEN <<full_url_of(select_a(cells[1])[1], base_url)>>
                    ELSE <<>>
      links == row_links(cells, base_url)
      s2 == FirstIndex(links, {u \in Range(links) : is_likely_composition_url(u)})
      s3 == FirstIndex(links, {u \in Range(links) : ~is_likely_non_composition_url(u)})
  IN  IF first_link # <<>> /\ is_likely_composition_url(first_link[1])
      THEN first_link[1]
      ELSE IF s2 # 0 THEN links[s2]
      ELSE IF s3 # 0 THEN links[s3]
      ELSE page_url

----------------------------------------------------------------------------
(* Raw table harvester (works.rs, extract_raw_table_data) *)

\* Option<T>: None is the empty sequence, Some(v) the one-element sequence.
None == <<>>

Some(v) == <<v>>

\* A table is the sequence of its rows (tr) in document order; a row is
\* [th |-> the text content of its header cells, td |-> its data cells].

Max(S) == IF S = {} THEN 0 ELSE CHOOSE n \in S : \A m \in S : m <= n

Min(S) == CHOOSE n \in S : \A m \in S : n <= m

\* the th texts, trimmed, of the first row that has header cells
found_headers(table) ==
  LET with_th == {i \in 1..Len(table) : table[i].th # <<>>}
  IN  IF with_th = {} THEN <<>>
      ELSE Collect([k \in 1..Len(table[Min(with_th)].th) |->
                      trim(table[Min(with_th)].th[k])])

\* format!("column_{}", i) for i in 0..max_cols
generic_headers(table) ==
  LET max_cols == Max({Len(table[i].td) : i \in 1..Len(table)})
  IN  Collect([i \in 1..max_cols |->
                 <<"c", "o", "l", "u", "m", "n", "_">> \o format_usize(i - 1)])

table_headers(table) ==
  IF found_headers(table) = <<>> THEN generic_headers(table)
  ELSE found_headers(table)

\* cell.select(&a_selector).next().and_then(|a| a.value().attr("href")).map(..)
cell_link_of(cell, base_url) ==
  IF select_a(cell) = <<>> THEN None
  ELSE Some(full_url_of(select_a(cell)[1], base_url))

\* format!("<tr>{}</tr>", cells.iter().map(|cell| cell.html()).join(""))
raw_html_snippet_of(cells) ==
  <<"<tr>">> \o Concat([i \in 1..Len(cells) |-> cells[i].html]) \o <<"</tr>">>

\* the RawCompositionData of the k-th data row (row_index k - 1)
raw_data_of(cells, headers, composer_name, composer_url, page_url, index, k) ==
  [composer_name |-> composer_name,
   composer_url |-> composer_url,
   source_url |-> determine_source_url(cells, page_url, BaseUrl),
   table_index |-> index,
   row_index |-> k - 1,
   headers |-> headers,
   cell_data |-> Collect([i \in 1..Len(cells) |-> trim(cells[i].text)]),
   cell_links |-> Collect([i \in 1..Len(cells) |-> cell_link_of(cells[i], BaseUrl)]),
   raw_html_snippet |-> raw_html_snippet_of(cells)]

\* the harvester with row_index advanced for every tr, skipped or not
extract_raw_table_data_counts_all_rows(table, composer_name, composer_url, page_url, index) ==
  LET headers == table_headers(table)
      positions == SelectSeq([i \in 1..Len(table) |-> i], LAMBDA i : table[i].td # <<>>)
  IN  Collect([k \in 1..Len(positions) |->
                 raw_data_of(table[positions[k]].td, headers, composer_name, composer_url,
                             page_url, index, positions[k])])

extract_raw_table_data(table, composer_name, composer_url, page_url, index) ==
  LET headers == table_headers(table)
      \* rows whose td selection is empty are skipped (continue)
      data_rows == SelectSeq(table, LAMBDA row : row.td # <<>>)
  IN  Collect([k \in 1..Len(data_rows) |->
                 raw_data_of(data_rows[k].td, headers, composer_name, composer_url,
                             page_url, index, k)])

----------------------------------------------------------------------------
(* Field canonicalizer (works.rs, FieldCanonicalizer and canonicalize_raw_data) *)

\* One alternative of a header pattern: the literal text and, for an
\* alternative written x\.? , the optional dot that may follow it.
Alt(lit, opt) == [lit |-> lit, opt |-> opt]

\* Regex::new(r"(?i)title|work|composition|piece|name")
title_patterns ==
  <<Alt(<<"t", "i", "t", "l", "e">>, <<>>),
    Alt(<<"w", "o", "r", "k">>, <<>>),
    Alt(<<"c", "o", "m", "p", "o", "s", "i", "t", "i", "o", "n">>, <<>>),
    Alt(<<"p", "i", "e", "c", "e">>, <<>>),
    Alt(<<"n", "a", "m", "e">>, <<>>)>>

\* Regex::new(r"(?i)year|date|composed|written|created")
year_patterns ==
  <<Alt(<<"y", "e", "a", "r">>, <<>>),
    Alt(<<"d", "a", "t", "e">>, <<>>),
    Alt(<<"c", "o", "m", "p", "o", "s", "e", "d">>, <<>>),
    Alt(<<"w", "r", "i", "t", "t", "e", "n">>, <<>>),
    Alt(<<"c", "r", "e", "a", "t", "e", "d">>, <<>>)>>

\* Regex::new(r"(?i)key|tonality")
key_patterns ==
  <<Alt(<<"k", "e", "y">>, <<>>),
    Alt(<<"t", "o", "n", "a", "l", "i", "t", "y">>, <<>>)>>

\* Regex::new(r"(?i)opus|op\.?|work number|woo|bwv|k\.?|hob\.?")
opus_patterns ==
  <<Alt(<<"o", "p", "u", "s">>, <<>>),
    Alt(<<"o", "p">>, <<".">>),
    Alt(<<"w", "o", "r", "k", " ", "n", "u", "m", "b", "e", "r">>, <<>>),
    Alt(<<"w", "o", "o">>, <<>>),
    Alt(<<"b", "w", "v">>, <<>>),
    Alt(<<"k">>, <<".">>),
    Alt(<<"h", "o", "b">>, <<".">>)>>

\* Regex::new(r"(?i)genre|type|form|category")
genre_patterns ==
  <<Alt(<<"g", "e", "n", "r", "e">>, <<>>),
    Alt(<<"t", "y", "p", "e">>, <<>>),
    Alt(<<"f", "o", "r", "m">>, <<>>),
    Alt(<<"c", "a", "t", "e", "g", "o", "r", "y">>, <<>>)>>

\* Regex::new(r"(?i)catalog|catalogue|cat\.?|thematic|index")
catalog_patterns ==
  <<Alt(<<"c", "a", "t", "a", "l", "o", "g">>, <<>>),
    Alt(<<"c", "a", "t", "a", "l", "o", "g", "u", "e">>, <<>>),
    Alt(<<"c", "a", "t">>, <<".">>),
    Alt(<<"t", "h", "e", "m", "a", "t", "i", "c">>, <<>>),
    Alt(<<"i", "n", "d", "e", "x">>, <<>>)>>

\* Regex::new(r"(?i)instrumentation|scoring|forces|ensemble|for")
instrumentation_patterns ==
  <<Alt(<<"i", "n", "s", "t", "r", "u", "m", "e", "n", "t", "a", "t", "i", "o", "n">>, <<>>),
    Alt(<<"s", "c", "o", "r", "i", "n", "g">>, <<>>),
    Alt(<<"f", "o", "r", "c", "e", "s">>, <<>>),
    Alt(<<"e", "n", "s", "e", "m", "b", "l", "e">>, <<>>),
    Alt(<<"f", "o", "r">>, <<>>)>>

\* Regex::new(r"(?i)duration|length|time|minutes|mins")
duration_patterns ==
  <<Alt(<<"d", "u", "r", "a", "t", "i", "o", "n">>, <<>>),
    Alt(<<"l", "e", "n", "g", "t", "h">>, <<>>),
    Alt(<<"t", "i", "m", "e">>, <<>>),
    Alt(<<"m", "i", "n", "u", "t", "e", "s">>, <<>>),
    Alt(<<"m", "i", "n", "s">>, <<>>)>>

\* the alternatives of a pattern with their letters folded to lower case: (?i)
folded(patterns) ==
  Collect([k \in 1..Len(patterns) |->
             Alt(to_lowercase(patterns[k].lit), to_lowercase(patterns[k].opt))])

\* Regex::is_match of a (?i) alternation of literals: some alternative
\* occurs in the text, letter case ignored, with or without its optional dot
is_match(patterns, text) ==
  LET folded_text == to_lowercase(text)
  IN  \E k \in 1..Len(patterns) :
        \E p \in 0..(Len(folded_text) - Len(patterns[k].lit)) :
          /\ MatchAt(folded_text, p, patterns[k].lit)
          /\ \/ MatchAt(folded_text, p + Len(patterns[k].lit), patterns[k].opt)
             \/ TRUE

\* the eight pattern groups in the order categorize_header tests them
pattern_groups ==
  <<[field |-> "title", patterns |-> folded(title_patterns)],
    [field |-> "year", patterns |-> folded(year_patterns)],
    [field |-> "key", patterns |-> folded(key_patterns)],
    [field |-> "opus", patterns |-> folded(opus_patterns)],
    [field |-> "genre", patterns |-> folded(genre_patterns)],
    [field |-> "catalog_number", patterns |-> folded(catalog_patterns)],
    [field |-> "instrumentation", patterns |-> folded(instrumentation_patterns)],
    [field |-> "duration", patterns |-> folded(duration_patterns)]>>

Fields == {pattern_groups[g].field : g \in 1..Len(pattern_groups)}

\* Some(<field>) of the last group that matches, None when none does
categorize_header_last_wins(header) ==
  LET header_lower == to_lowercase(header)
      hits == {g \in 1..Len(pattern_groups) :
                 is_match(pattern_groups[g].patterns, header_lower)}
  IN  IF hits = {} THEN None ELSE Some(pattern_groups[Max(hits)].field)

\* Some(<field>) of the first group that matches, None when none does
categorize_header(header) ==
  LET header_lower == to_lowercase(header)
      hits == {g \in 1..Len(pattern_groups) :
                 is_match(pattern_groups[g].patterns, header_lower)}
  IN  IF hits = {} THEN None ELSE Some(pattern_groups[Min(hits)].field)

\* \b of the regex crate after the first p characters of s
WordBoundary(s, p) ==
  (p >= 1 /\ IsWordChar(s[p])) # (p < Len(s) /\ IsWordChar(s[p + 1]))

\* the number of white space characters of s from position p + 1 on (\s*)
RECURSIVE SpacesFrom(_, _)
SpacesFrom(s, p) ==
  IF p < Len(s) /\ IsSpace(s[p + 1]) THEN 1 + SpacesFrom(s, p + 1) ELSE 0

\* the number of digits of s from position p + 1 on (\d+, greedy)
RECURSIVE DigitsFrom(_, _)
DigitsFrom(s, p) ==
  IF p < Len(s) /\ IsDigit(s[p + 1]) THEN 1 + DigitsFrom(s, p + 1) ELSE 0

\* the end of the first of the words that occurs in s right after its first
\* p characters, 0 when none does
WordEndAt(s, p, words) ==
  LET hits == {k \in 1..Len(words) : MatchAt(s, p, words[k])}
  IN  IF hits = {} THEN 0 ELSE p + Len(words[Min(hits)])

\* r"\b(1[5-9]\d{2}|20[0-2]\d)\b" matches the four characters after the first p
YearAt(s, p) ==
  /\ p + 4 <= Len(s)
  /\ \/ /\ s[p + 1] = "1"
        /\ s[p + 2] \in {"5", "6", "7", "8", "9"}
        /\ IsDigit(s[p + 3])
        /\ IsDigit(s[p + 4])
     \/ /\ s[p + 1] = "2"
        /\ s[p + 2] = "0"
        /\ s[p + 3] \in {"0", "1", "2"}
        /\ IsDigit(s[p + 4])
  /\ WordBoundary(s, p)
  /\ WordBoundary(s, p + 4)

\* year_regex.find(text).map(|m| m.as_str().to_string())
extract_year_from_text(text) ==
  LET hits == {p \in 0..Len(text) : YearAt(text, p)}
  IN  IF hits = {} THEN None ELSE Some(SubSeq(text, Min(hits) + 1, Min(hits) + 4))

Accidentals ==
  <<<<"f", "l", "a", "t">>, <<"s", "h", "a", "r", "p">>, <<"U+266D">>, <<"U+266F">>>>

Modes ==
  <<<<"m", "a", "j", "o", "r">>, <<"m", "i", "n", "o", "r">>, <<"M", "a", "j", "o", "r">>, <<"M", "i", "n", "o", "r">>>>

OpusWords ==
  <<<<"O", "p", ".">>, <<"O", "p", "u", "s">>, <<"o", "p", ".">>>>

\* r"\b([A-G](?:\s*(?:flat|sharp|U+266D|U+266F))?\s*(?:major|minor|Major|Minor))\b"
\* tried after the first p characters: the end of the match, 0 when none
KeyEndAt(s, p) ==
  IF ~(p < Len(s) /\ s[p + 1] \in {"A", "B", "C", "D", "E", "F", "G"}
       /\ WordBoundary(s, p))
  THEN 0
  ELSE LET q == p + 1
           \* with the optional accidental
           acc == WordEndAt(s, q + SpacesFrom(s, q), Accidentals)
           with == IF acc = 0 THEN 0
                   ELSE WordEndAt(s, acc + SpacesFrom(s, acc), Modes)
           \* without it
           without == WordEndAt(s, q + SpacesFrom(s, q), Modes)
       IN  IF with # 0 /\ WordBoundary(s, with) THEN with
           ELSE IF without # 0 /\ WordBoundary(s, without) THEN without
           ELSE 0

\* key_regex.find(text).map(|m| m.as_str().to_string())
extract_key_from_text(text) ==
  LET hits == {p \in 0..Len(text) : KeyEndAt(text, p) # 0}
  IN  IF hits = {} THEN None
      ELSE Some(SubSeq(text, Min(hits) + 1, KeyEndAt(text, Min(hits))))

\* r"\b(?:Op\.|Opus|op\.)\s*(\d+(?:\s*[a-z])?)\b" tried after the first p
\* characters: <<start, end>> of capture group 1, <<>> when there is no match
OpusCaptureAt(s, p) ==
  LET w == WordEndAt(s, p, OpusWords)
      d == w + SpacesFrom(s, w)
      e == d + DigitsFrom(s, d)
      l == e + SpacesFrom(s, e)
      letter == l < Len(s) /\ IsAsciiLower(s[l + 1])
  IN  IF w = 0 \/ ~WordBoundary(s, p) \/ e = d THEN <<>>
      ELSE IF letter /\ WordBoundary(s, l + 1) THEN <<d + 1, l + 1>>
      ELSE IF WordBoundary(s, e) THEN <<d + 1, e>>
      ELSE <<>>

\* opus_regex.captures(text).and_then(|caps| caps.get(1)).map(..)
extract_opus_from_text(text) ==
  LET hits == {p \in 0..Len(text) : OpusCaptureAt(text, p) # <<>>}
  IN  IF hits = {} THEN None
      ELSE Some(SubSeq(text, OpusCaptureAt(text, Min(hits))[1],
                             OpusCaptureAt(text, Min(hits))[2]))

\* Composition { title: String::new(), work_url: None, .., raw_data }
new_composition(raw_data) ==
  [composer_name |-> raw_data.composer_name,
   composer_url |-> raw_data.composer_url,
   source_url |-> raw_data.source_url,
   title |-> <<>>,
   work_url |-> None,
   year |-> None,
   key |-> None,
   opus |-> None,
   genre |-> None,
   catalog_number |-> None,
   instrumentation |-> None,
   duration |-> None,
   additional_info |-> <<>>,
   raw_data |-> raw_data]

\* field_mappings: for each field, the positions (from 1) of the headers that
\* classify to it, in header order; a field is a key of the HashMap when its
\* sequence is not empty
field_mappings(raw_data) ==
  LET classes == Collect([i \in 1..Len(raw_data.headers) |->
                            categorize_header(raw_data.headers[i])])
  IN  [field \in Fields |->
         SelectSeq([i \in 1..Len(raw_data.headers) |-> i],
                   LAMBDA i : classes[i] = Some(field))] @@ <<>>

\* the keys of the HashMap
mapped_fields(mappings) == {f \in DOMAIN mappings : mappings[f] # <<>>}

\* what stands for a panic where a value is expected: a sequence longer than
\* any text and any Option of the model, so that it equals none of them
Panic == [i \in 1..64 |-> "panic!"]

\* v[idx] of a Vec, idx counted from 1 here: a panic when it is out of bounds
vec_index(v, idx) == IF idx \in 1..Len(v) THEN v[idx] ELSE Panic

\* raw_data.cell_links[idx] in place of .get(idx)
link_at_indexed(raw_data, idx) == vec_index(raw_data.cell_links, idx)

\* raw_data.cell_links.get(idx).and_then(|l| l.as_ref())
link_at(raw_data, idx) ==
  IF idx <= Len(raw_data.cell_links) THEN raw_data.cell_links[idx] ELSE None

\* extracted value, else the raw cell text when it is not empty, else nothing
extracted_or_raw(extracted, cell_data) ==
  IF extracted # None THEN extracted
  ELSE IF ~is_empty(cell_data) THEN Some(cell_data)
  ELSE None

\* the first non-empty text, for the fields stored verbatim
raw_if_present(cell_data) == IF ~is_empty(cell_data) THEN Some(cell_data) ELSE None

\* the arm "key" that also takes the cell for the title while there is none
key_arm_claims_title(composition, cell_data) ==
  IF composition.key = None
  THEN [composition EXCEPT
          !.key = extracted_or_raw(extract_key_from_text(cell_data), cell_data),
          !.title = IF is_empty(@) THEN cell_data ELSE @]
  ELSE composition

\* the arm "key" of the match
key_arm(composition, cell_data) ==
  IF composition.key = None
  THEN [composition EXCEPT
          !.key = extracted_or_raw(extract_key_from_text(cell_data), cell_data)]
  ELSE composition

\* one pass of the inner loop: the match on field for the column idx
visit_index(composition, raw_data, field, idx) ==
  IF ~(idx <= Len(raw_data.cell_data)) THEN composition
  ELSE
    LET cell_data == vec_index(raw_data.cell_data, idx)
        cell_link == link_at(raw_data, idx)
    IN  CASE field = "title" ->
               IF is_empty(composition.title) /\ ~is_empty(cell_data)
               THEN [composition EXCEPT !.title = cell_data, !.work_url = cell_link]
               ELSE composition
          [] field = "year" ->
               IF composition.year = None
               THEN [composition EXCEPT
                       !.year = extracted_or_raw(extract_year_from_text(cell_data), cell_data)]
               ELSE composition
          [] field = "key" -> key_arm(composition, cell_data)
          [] field = "opus" ->
               IF composition.opus = None
               THEN [composition EXCEPT
                       !.opus = extracted_or_raw(extract_opus_from_text(cell_data), cell_data)]
               ELSE composition
          [] field = "genre" ->
               IF composition.genre = None
               THEN [composition EXCEPT !.genre = raw_if_present(cell_data)]
               ELSE composition
          [] field = "catalog_number" ->
               IF composition.catalog_number = None
               THEN [composition EXCEPT !.catalog_number = raw_if_present(cell_data)]
               ELSE composition
          [] field = "instrumentation" ->
               IF composition.instrumentation = None
               THEN [composition EXCEPT !.instrumentation = raw_if_present(cell_data)]
               ELSE composition
          [] field = "duration" ->
               IF composition.duration = None
               THEN [composition EXCEPT !.duration = raw_if_present(cell_data)]
               ELSE composition
          [] OTHER -> composition

RECURSIVE visit_indices(_, _, _, _)
\* for &idx in &indices { .. }
visit_indices(composition, raw_data, field, indices) ==
  IF indices = <<>> THEN composition
  ELSE visit_indices(visit_index(composition, raw_data, field, Head(indices)),
                     raw_data, field, Tail(indices))

RECURSIVE visit_fields(_, _, _, _)
\* for (field, indices) in field_mappings: the keys visited in the given order
visit_fields(composition, raw_data, mappings, order) ==
  IF order = <<>> THEN composition
  ELSE visit_fields(visit_indices(composition, raw_data, Head(order), mappings[Head(order)]),
                    raw_data, mappings, Tail(order))

\* the fallback taking the first non-empty cell, linked or not
title_fallback_any_cell(composition, raw_data) ==
  LET filled == {i \in 1..Len(raw_data.cell_data) : ~is_empty(raw_data.cell_data[i])}
  IN  IF is_empty(composition.title) /\ filled # {}
      THEN [composition EXCEPT !.title = raw_data.cell_data[Min(filled)],
                               !.work_url = link_at(raw_data, Min(filled))]
      ELSE composition

\* Fallback: if no title found, use first non-empty cell with a link
title_fallback(composition, raw_data) ==
  LET linked == {i \in 1..Len(raw_data.cell_data) :
                   ~is_empty(raw_data.cell_data[i]) /\ link_at(raw_data, i) # None}
  IN  IF is_empty(composition.title) /\ linked # {}
      THEN [composition EXCEPT !.title = raw_data.cell_data[Min(linked)],
                               !.work_url = vec_index(raw_data.cell_links, Min(linked))]
      ELSE composition

RECURSIVE insert_unmapped(_, _, _)
\* headers.iter().zip(cell_data.iter()): additional_info.insert(header, cell)
\* for the positions k .. min(len(headers), len(cell_data))
insert_unmapped(info, raw_data, k) ==
  IF k > Len(raw_data.headers) \/ k > Len(raw_data.cell_data) THEN info
  ELSE LET header == raw_data.headers[k]
           cell_data == raw_data.cell_data[k]
       IN  IF categorize_header(header) = None /\ ~is_empty(cell_data)
           THEN insert_unmapped((header :> cell_data) @@ info, raw_data, k + 1)
           ELSE insert_unmapped(info, raw_data, k + 1)

\* Store unmapped data in additional_info
store_unmapped(composition, raw_data) ==
  [composition EXCEPT
     !.additional_info = insert_unmapped(composition.additional_info, raw_data, 1)]

\* the keys of the map in the order of pattern_groups: one iteration order
\* of the HashMap field_mappings
group_order(mappings) ==
  LET present == SelectSeq([g \in 1..Len(pattern_groups) |-> g],
                           LAMBDA g : pattern_groups[g].field \in mapped_fields(mappings))
  IN  Collect([k \in 1..Len(present) |-> pattern_groups[present[k]].field])

\* canonicalize_raw_data with the HashMap visited in the given order
canonicalize_in_order(raw_data, mappings, order) ==
  store_unmapped(
    title_fallback(
      visit_fields(new_composition(raw_data), raw_data, mappings, order),
      raw_data),
    raw_data)

\* The iteration order of field_mappings is not specified; each field's arm
\* writes only that field's slot, so one order stands for all of them where
\* a whole record is canonicalized in one step.
canonicalize_raw_data(raw_data) ==
  LET mappings == field_mappings(raw_data)
  IN  canonicalize_in_order(raw_data, mappings, group_order(mappings))

\* the output gate of get_works:
\* !composition.title.is_empty() && composition.title.len() > 2
title_gate(composition) ==
  ~is_empty(composition.title) /\ len(composition.title) > MinTitleLen

\* the gate of reprocess_raw_data: !composition.title.is_empty()
replay_gate(composition) == ~is_empty(composition.title)

----------------------------------------------------------------------------
(* Year parser (composers.rs, parse_year_range and
   extract_years_from_parentheses). The texts of the model are ASCII and the
   en dash, so \d is 0-9 and \s is the ASCII white space. *)

\* ParsedYears { birth_year, death_year, approximate, flourished }
ParsedYears(birth_year, death_year, approximate, flourished) ==
  [birth_year |-> birth_year,
   death_year |-> death_year,
   approximate |-> approximate,
   flourished |-> flourished]

\* the largest i32
I32Max == 2147483647

\* the digits without their leading zeros
significant(digits) ==
  LET nonzero == {i \in 1..Len(digits) : digits[i] # "0"}
  IN  IF nonzero = {} THEN <<>> ELSE SubSeq(digits, Min(nonzero), Len(digits))

\* str::parse::<i32>().ok(): an optional sign and one or more digits, the
\* value within i32 (the value of ten digits is compared with the limit
\* through its first nine digits and its last)
parse_i32(s) ==
  LET negative == s # <<>> /\ s[1] = "-"
      digits == IF s # <<>> /\ s[1] \in {"+", "-"} THEN Tail(s) ELSE s
      sig == significant(digits)
      high == parse_usize_at(sig, Min({Len(sig), 9}))
      low == IF Len(sig) = 10 THEN DigitValue(sig[10]) ELSE 0
      last == IF negative THEN (I32Max % 10) + 1 ELSE I32Max % 10
  IN  IF digits = <<>> \/ (\E i \in 1..Len(digits) : ~IsDigit(digits[i])) THEN None
      ELSE IF Len(sig) <= 9 THEN Some(IF negative THEN 0 - high ELSE high)
      ELSE IF Len(sig) = 10
              /\ (high < I32Max \div 10 \/ (high = I32Max \div 10 /\ low <= last))
      THEN Some(IF negative THEN (0 - 10 * high) - low ELSE 10 * high + low)
      ELSE None

\* how many digits stand at s[p], s[p + 1], ..
digit_run(s, p) ==
  Max({n \in 0..(Len(s) - p + 1) : \A i \in p..(p + n - 1) : IsDigit(s[i])})

\* how many white-space characters stand at s[p], s[p + 1], ..
space_run(s, p) ==
  Max({n \in 0..(Len(s) - p + 1) : \A i \in p..(p + n - 1) : IsSpace(s[i])})

\* [-–]
IsDash(c) == c \in {"-", "U+2013"}

\* (\d{3,4})\s*[-–]\s*(\d{3,4}) matched at position p: the two groups, or
\* None. The first group is the whole run of digits at p, of 3 or 4, since a
\* digit cannot follow it; the second is greedy, up to 4 digits.
range_at(s, p) ==
  LET first == digit_run(s, p)
      dash == p + first + space_run(s, p + first)
      second_at == dash + 1 + space_run(s, dash + 1)
      second == Min({4, digit_run(s, second_at)})
  IN  IF first \in 3..4 /\ dash <= Len(s) /\ IsDash(s[dash]) /\ second >= 3
      THEN Some(<<SubSeq(s, p, p + first - 1), SubSeq(s, second_at, second_at + second - 1)>>)
      ELSE None

\* re.captures(s): the leftmost match
captures_range(s) ==
  LET hits == {p \in 1..Len(s) : range_at(s, p) # None}
  IN  IF hits = {} THEN None ELSE range_at(s, Min(hits))

\* re_single.captures(s) for (\d{3,4}): the leftmost match, greedy
captures_single(s) ==
  LET hits == {p \in 1..Len(s) : digit_run(s, p) >= 3}
  IN  IF hits = {} THEN None
      ELSE Some(SubSeq(s, Min(hits), Min(hits) + Min({4, digit_run(s, Min(hits))}) - 1))

\* the parser trying the single year before the range
parse_year_range_single_first(s, approximate, flourished) ==
  IF captures_single(s) # None
  THEN LET birth == parse_i32(captures_single(s)[1])
       IN  IF birth = None THEN None
           ELSE Some(ParsedYears(birth, None, approximate, flourished))
  ELSE None

parse_year_range(s, approximate, flourished) ==
  IF captures_range(s) # None
  THEN LET birth == parse_i32(captures_range(s)[1][1])
           death == parse_i32(captures_range(s)[1][2])
       IN  IF birth = None \/ death = None THEN None
           ELSE Some(ParsedYears(birth, death, approximate, flourished))
  ELSE IF captures_single(s) # None
  THEN LET birth == parse_i32(captures_single(s)[1])
       IN  IF birth = None THEN None
           ELSE Some(ParsedYears(birth, None, approximate, flourished))
  ELSE None

\* str::find(c) on s[from..]: the position of the first c at or after from,
\* None when there is none
find_from(s, from, c) ==
  LET hits == {i \in from..Len(s) : s[i] = c}
  IN  IF hits = {} THEN None ELSE Some(Min(hits))

\* &s[from..to], the characters after position from up to position to: a
\* panic when the range is not one of s
slice(s, from, to) ==
  IF from <= to /\ to <= Len(s) THEN SubSeq(s, from + 1, to) ELSE Panic

\* s.starts_with("c.") || s.starts_with("c ")
is_circa(s) == starts_with(s, <<"c", ".">>) \/ starts_with(s, <<"c", " ">>)

\* s.starts_with("fl.") || s.starts_with("fl ")
is_flourished(s) == starts_with(s, <<"f", "l", ".">>) \/ starts_with(s, <<"f", "l", " ">>)

\* the arm born: s[5..].trim().parse::<i32>().ok()?
born_arm(s) ==
  LET year == IF slice(s, 5, Len(s)) = Panic THEN Panic
              ELSE parse_i32(trim(slice(s, 5, Len(s))))
  IN  IF year = Panic THEN Panic
      ELSE IF year = None THEN None
      ELSE Some(ParsedYears(year, None, FALSE, FALSE))

extract_years_from_parentheses(text) ==
  LET start == find_from(text, 1, "(")
  IN  IF start = None THEN None
      ELSE LET end == find_from(text, start[1], ")")
           IN  IF end = None THEN None
               ELSE LET years == slice(text, start[1], end[1] - 1)
                        normalized == IF years = Panic THEN Panic
                                      ELSE to_lowercase(trim(years))
                    IN  IF normalized = Panic THEN Panic
                        ELSE IF is_circa(normalized)
                        THEN parse_year_range(normalized, TRUE, FALSE)
                        ELSE IF is_flourished(normalized)
                        THEN parse_year_range(normalized, FALSE, TRUE)
                        ELSE IF starts_with(normalized, <<"b", "o", "r", "n", " ">>)
                        THEN born_arm(normalized)
                        ELSE parse_year_range(normalized, FALSE, FALSE)
----------------------------------------------------------------------------
(* serde_json: one JSON object per line *)

\* the escape sequence serde_json writes for a character of a string
escape_char(c) ==
  CASE c = "\"" -> <<"\\", "\"">>
    [] c = "\\" -> <<"\\", "\\">>
    [] c = "\n" -> <<"\\", "n">>
    [] c = "\r" -> <<"\\", "r">>
    [] c = "\t" -> <<"\\", "t">>
    [] OTHER -> <<c>>

\* the character an escape sequence \c stands for
unescape_char(c) ==
  CASE c = "n" -> "\n"
    [] c = "r" -> "\r"
    [] c = "t" -> "\t"
    [] OTHER -> c

\* a String as a JSON string
json_string(s) ==
  IF \A i \in 1..Len(s) : escape_char(s[i]) = <<s[i]>>
  THEN <<"\"">> \o s \o <<"\"">>
  ELSE <<"\"">> \o Concat([i \in 1..Len(s) |-> escape_char(s[i])]) \o <<"\"">>

\* an Option<String>: null or the string
json_option(o) == IF o = None THEN <<"null">> ELSE json_string(o[1])

RECURSIVE json_join_from(_, _)
json_join_from(items, k) ==
  IF k > Len(items) THEN <<>>
  ELSE IF k = Len(items) THEN items[k]
  ELSE items[k] \o <<",">> \o json_join_from(items, k + 1)

\* the items of an array or an object, separated by commas
json_join(items) == json_join_from(Collect(items), 1)

json_string_array(v) ==
  <<"[">> \o json_join([i \in 1..Len(v) |-> json_string(v[i])]) \o <<"]">>

json_option_array(v) ==
  <<"[">> \o json_join([i \in 1..Len(v) |-> json_option(v[i])]) \o <<"]">>

\* serde_json::to_string(&raw_data): the fields in declaration order
to_string_raw(raw_data) ==
  <<"{\"composer_name\":">> \o json_string(raw_data.composer_name)
  \o <<",\"composer_url\":">> \o json_string(raw_data.composer_url)
  \o <<",\"source_url\":">> \o json_string(raw_data.source_url)
  \o <<",\"table_index\":">> \o format_usize(raw_data.table_index)
  \o <<",\"row_index\":">> \o format_usize(raw_data.row_index)
  \o <<",\"headers\":">> \o json_string_array(raw_data.headers)
  \o <<",\"cell_data\":">> \o json_string_array(raw_data.cell_data)
  \o <<",\"cell_links\":">> \o json_option_array(raw_data.cell_links)
  \o <<",\"raw_html_snippet\":">> \o json_string(raw_data.raw_html_snippet)
  \o <<"}">>

\* a HashMap<String, String> written with its keys in the given order
json_map(info, key_order) ==
  <<"{">>
  \o json_join([i \in 1..Len(key_order) |->
                  json_string(key_order[i]) \o <<":">> \o json_string(info[key_order[i]])])
  \o <<"}">>

\* serde_json::to_string(&composition), additional_info iterated in key_order
to_string_composition(c, key_order) ==
  <<"{\"composer_name\":">> \o json_string(c.composer_name)
  \o <<",\"composer_url\":">> \o json_string(c.composer_url)
  \o <<",\"source_url\":">> \o json_string(c.source_url)
  \o <<",\"title\":">> \o json_string(c.title)
  \o <<",\"work_url\":">> \o json_option(c.work_url)
  \o <<",\"year\":">> \o json_option(c.year)
  \o <<",\"key\":">> \o json_option(c.key)
  \o <<",\"opus\":">> \o json_option(c.opus)
  \o <<",\"genre\":">> \o json_option(c.genre)
  \o <<",\"catalog_number\":">> \o json_option(c.catalog_number)
  \o <<",\"instrumentation\":">> \o json_option(c.instrumentation)
  \o <<",\"duration\":">> \o json_option(c.duration)
  \o <<",\"additional_info\":">> \o json_map(c.additional_info, key_order)
  \o <<",\"raw_data\":">> \o to_string_raw(c.raw_data)
  \o <<"}">>

\* the orders a HashMap with these keys can be iterated in
RECURSIVE KeyOrders(_)
KeyOrders(keys) ==
  IF keys = {} THEN {<<>>}
  ELSE UNION {{<<k>> \o rest : rest \in KeyOrders(keys \ {k})} : k \in keys}

\* A parse result: [ok, val, next]; next is the number of elements consumed.
Failed == [ok |-> FALSE, val |-> <<>>, next |-> 0]

Parsed(v, n) == [ok |-> TRUE, val |-> v, next |-> n]

\* the element lit is next after the first p elements of s
expect(s, p, lit) == p < Len(s) /\ s[p + 1] = lit

RECURSIVE read_string_body(_, _, _)
\* the characters of a JSON string up to its closing quote
read_string_body(s, p, acc) ==
  IF p >= Len(s) THEN Failed
  ELSE IF s[p + 1] = "\"" THEN Parsed(acc, p + 1)
  ELSE IF s[p + 1] = "\\"
       THEN IF p + 1 >= Len(s) THEN Failed
            ELSE read_string_body(s, p + 2, Append(acc, unescape_char(s[p + 2])))
  ELSE IF s[p + 1] \in {"\n", "\r", "\t"} THEN Failed
  ELSE read_string_body(s, p + 1, Append(acc, s[p + 1]))

parse_string(s, p) ==
  IF expect(s, p, "\"") THEN read_string_body(s, p + 1, <<>>) ELSE Failed

parse_option(s, p) ==
  IF expect(s, p, "null") THEN Parsed(None, p + 1)
  ELSE LET r == parse_string(s, p)
       IN  IF r.ok THEN Parsed(Some(r.val), r.next) ELSE Failed

parse_usize(s, p) ==
  LET n == DigitsFrom(s, p)
  IN  IF n = 0 THEN Failed
      ELSE Parsed(parse_usize_at(SubSeq(s, p + 1, p + n), n), p + n)

\* an item of an array: a string, or (optional) null or a string
parse_item(s, p, optional) ==
  IF optional THEN parse_option(s, p) ELSE parse_string(s, p)

RECURSIVE parse_items(_, _, _, _)
\* the items of an array after its first item, up to the closing bracket
parse_items(s, p, acc, optional) ==
  IF expect(s, p, "]") THEN Parsed(acc, p + 1)
  ELSE IF expect(s, p, ",")
       THEN LET r == parse_item(s, p + 1, optional)
            IN  IF r.ok THEN parse_items(s, r.next, Append(acc, r.val), optional)
                ELSE Failed
  ELSE Failed

parse_array(s, p, optional) ==
  IF ~expect(s, p, "[") THEN Failed
  ELSE IF expect(s, p + 1, "]") THEN Parsed(<<>>, p + 2)
  ELSE LET r == parse_item(s, p + 1, optional)
       IN  IF r.ok THEN parse_items(s, r.next, <<r.val>>, optional) ELSE Failed

\* the value of a field of the object, after its key and colon
parse_field(s, p, key, type) ==
  IF ~expect(s, p, key) THEN Failed
  ELSE CASE type = "String" -> parse_string(s, p + 1)
         [] type = "usize" -> parse_usize(s, p + 1)
         [] type = "Vec<String>" -> parse_array(s, p + 1, FALSE)
         [] type = "Vec<Option<String>>" -> parse_array(s, p + 1, TRUE)

\* serde_json::from_str::<RawCompositionData>(&line): Some(record), or None
\* for a line that is not one such object
from_str_raw(line) ==
  LET f1 == parse_field(line, 0, "{\"composer_name\":", "String")
      f2 == parse_field(line, f1.next, ",\"composer_url\":", "String")
      f3 == parse_field(line, f2.next, ",\"source_url\":", "String")
      f4 == parse_field(line, f3.next, ",\"table_index\":", "usize")
      f5 == parse_field(line, f4.next, ",\"row_index\":", "usize")
      f6 == parse_field(line, f5.next, ",\"headers\":", "Vec<String>")
      f7 == parse_field(line, f6.next, ",\"cell_data\":", "Vec<String>")
      f8 == parse_field(line, f7.next, ",\"cell_links\":", "Vec<Option<String>>")
      f9 == parse_field(line, f8.next, ",\"raw_html_snippet\":", "String")
  IN  IF /\ f1.ok /\ f2.ok /\ f3.ok /\ f4.ok /\ f5.ok /\ f6.ok /\ f7.ok /\ f8.ok
         /\ f9.ok /\ expect(line, f9.next, "}") /\ f9.next + 1 = Len(line)
      THEN Some([composer_name |-> f1.val,
                 composer_url |-> f2.val,
                 source_url |-> f3.val,
                 table_index |-> f4.val,
                 row_index |-> f5.val,
                 headers |-> f6.val,
                 cell_data |-> f7.val,
                 cell_links |-> f8.val,
                 raw_html_snippet |-> f9.val])
      ELSE None

\* the positions where a line of the text begins
line_starts(text) ==
  {p \in 1..Len(text) : p = 1 \/ text[p - 1] = "\n"}

\* the line that begins at position p, without its "\n"
line_at(text, p) ==
  LET ends == {q \in p..Len(text) : text[q] = "\n"}
      stop == IF ends = {} THEN Len(text) + 1
              ELSE CHOOSE q \in ends : \A r \in ends : q <= r
  IN  SubSeq(text, p, stop - 1)

\* BufReader::lines: the content cut at each "\n"; a last line without one
\* is a line too
lines(text) ==
  LET starts == line_starts(text)
  IN  [k \in 1..Cardinality(starts) |->
         line_at(text, CHOOSE p \in starts :
                         Cardinality({q \in starts : q < p}) = k - 1)]


----------------------------------------------------------------------------
(* reprocess_raw_data *)

\* the lines of the raw file that parse, canonicalized, those with an empty
\* title left out; Err when File::open fails
reprocess_raw_data(files, filename) ==
  IF filename \notin DOMAIN files THEN [ok |-> FALSE, val |-> <<>>]
  ELSE LET parsed == SelectSeq(Collect([k \in 1..Len(lines(files[filename])) |->
                         from_str_raw(lines(files[filename])[k])]),
                       LAMBDA item : item # None)
           canonical == Collect([k \in 1..Len(parsed) |->
                          canonicalize_raw_data(parsed[k][1])])
       IN  [ok |-> TRUE, val |-> SelectSeq(canonical, replay_gate)]
----------------------------------------------------------------------------
(* The environment: the pages the site serves *)

\* a data cell with its text and the hrefs of its anchors
Td(text, anchors) ==
  [text |-> text, anchors |-> anchors, html |-> <<"<td>">> \o text \o <<"</td>">>]

\* a row of header cells, a row of data cells
HeaderRow(texts) == [th |-> texts, td |-> <<>>]

DataRow(cells) == [th |-> <<>>, td |-> cells]

\* a link the positive-keyword test accepts
HrefSonata == <<"/", "w", "i", "k", "i", "/", "S", "o", "n", "a", "t", "a">>

\* a link the negative-keyword test matches
HrefEra == <<"/", "w", "i", "k", "i", "/", "E", "r", "a">>

\* a link neither test matches
HrefPlain == <<"/", "w", "i", "k", "i", "/", "A", "b">>

\* a link both tests match
HrefList == <<"/", "w", "i", "k", "i", "/", "L", "i", "s", "t", "_", "o", "f", "_", "w", "o", "r", "k", "s">>

\* a selected link that is not rooted at /wiki/
HrefOther == <<"/", "w", "i", "k", "i", "s", "o", "u", "r", "c", "e">>

\* a link the selector does not select
HrefExternal == <<"/", "/", "x", ".", "o", "r", "g">>

\* the headers of the pages
HTitle == <<"T", "i", "t", "l", "e">>

HKey == <<"K", "e", "y">>

HNotes == <<"N", "o", "t", "e", "s">>

HInfo == <<"I", "n", "f", "o">>

\* the cell texts of the pages: "Ops", "Op", "R" e-acute (two characters,
\* three bytes), "C minor", and a text with white space around it and a
\* line break and a quote inside
TOps == <<"O", "p", "s">>

TOp == <<"O", "p">>

TRe == <<"R", "U+00E9">>

TKey == <<"C", " ", "m", "i", "n", "o", "r">>

TNote == <<" ", "a", "\n", "\"", "b", " ">>

\* a table with a header row, a row titled "Ops" and a row titled "Op"
TableA ==
  <<HeaderRow(<<HTitle, HKey, HNotes, HInfo>>),
    DataRow(<<Td(TOps, <<HrefSonata>>), Td(TKey, <<>>), Td(TNote, <<>>), Td(TOp, <<HrefEra>>)>>),
    DataRow(<<Td(TOp, <<>>), Td(<<>>, <<>>)>>)>>

\* a table without header cells: a row without cells, and a row whose title
\* comes from the linked cell
TableB ==
  <<DataRow(<<>>),
    DataRow(<<Td(TRe, <<HrefExternal, HrefPlain>>)>>)>>

DocA == <<TableA>>

DocB == <<TableB, TableA>>

\* a page with one table of one row
DocC == <<<<HeaderRow(<<HTitle>>), DataRow(<<Td(TOps, <<>>)>>)>>>>

\* the composer names get_works is called with
Subjects == {<<"I", " ", "S">>, <<"B">>}

\* a page with more rows than the channel holds, the last with a title the
\* gate rejects
LongTable ==
  <<HeaderRow(<<HTitle>>)>>
  \o Collect([i \in 1..(ChannelCapacity + Extra) |-> DataRow(<<Td(TOps, <<>>)>>)])
  \o <<DataRow(<<Td(TOp, <<>>)>>)>>

LongDoc == <<LongTable>>


\* the headers and cell texts of a table whose columns map to five fields,
\* two of them to the title
HYear == <<"Y", "e", "a", "r">>

HOpus == <<"O", "p", "u", "s">>

HGenre == <<"G", "e", "n", "r", "e">>

HWork == <<"W", "o", "r", "k">>

T1808 == <<"1", "8", "0", "8">>

TOpus67 == <<"O", "p", ".", " ", "6", "7">>

TSuite == <<"S", "u", "i", "t", "e">>

CanonHeaders == <<HTitle, HYear, HKey, HOpus, HGenre, HWork, HNotes>>

\* its rows: the title in the second title column only; in both; a row
\* shorter than the header row; a row with no title and a linked cell
CanonTable ==
  <<HeaderRow(CanonHeaders),
    DataRow(<<Td(<<>>, <<>>), Td(T1808, <<>>), Td(TKey, <<HrefEra>>), Td(TOpus67, <<>>),
              Td(TSuite, <<>>), Td(TOps, <<HrefSonata>>), Td(TNote, <<>>)>>),
    DataRow(<<Td(TOp, <<HrefPlain>>), Td(TOps, <<>>), Td(TRe, <<>>), Td(T1808, <<>>),
              Td(<<>>, <<>>), Td(TOps, <<>>), Td(TOps, <<>>)>>),
    DataRow(<<Td(TOps, <<>>), Td(TOpus67, <<>>), Td(TKey, <<>>)>>),
    DataRow(<<Td(<<>>, <<>>), Td(T1808, <<>>), Td(TKey, <<HrefSonata>>), Td(<<>>, <<>>),
              Td(TSuite, <<HrefList>>), Td(<<>>, <<>>), Td(TNote, <<>>)>>)>>

\* the link of the example: /wiki/Symphony_No._5_(Beethoven)
HrefSymphony == <<"/", "w", "i", "k", "i", "/", "S", "y", "m", "p", "h", "o", "n", "y", "_", "N", "o", ".", "_", "5", "_", "(", "B", "e", "e", "t", "h", "o", "v", "e", "n", ")">>

TSymphony == <<"S", "y", "m", "p", "h", "o", "n", "y", " ", "N", "o", ".", " ", "5">>

\* the link to a list page: /wiki/List_of_compositions_by_Bach
HrefBach == <<"/", "w", "i", "k", "i", "/", "L", "i", "s", "t", "_", "o", "f", "_", "c", "o", "m", "p", "o", "s", "i", "t", "i", "o", "n", "s", "_", "b", "y", "_", "B", "a", "c", "h">>

\* the cells a row is made of: without a link, with one link of each kind,
\* with two links
UrlCells ==
  {Td(T1808, <<>>), Td(TSymphony, <<HrefSymphony>>), Td(TOps, <<HrefBach>>)}
  \cup {Td(TOps, <<href>>) : href \in {HrefSonata, HrefEra, HrefPlain, HrefList,
                                        HrefOther, HrefExternal}}
  \cup {Td(TOps, <<HrefPlain, HrefSonata>>), Td(TOps, <<HrefExternal, HrefEra>>),
        Td(TOps, <<HrefEra, HrefOther>>)}

\* the page the rows are on
PageUrl == <<"h", "t", "t", "p", "s", ":", "/", "/", "e", "n", ".", "w", "i", "k", "i", "p", "e", "d", "i", "a", ".", "o", "r", "g", "/", "w", "i", "k", "i", "/", "L", "i", "s", "t", "_", "o", "f", "_", "c", "o", "m", "p", "o", "s", "i", "t", "i", "o", "n", "s", "_", "b", "y", "_", "B">>

\* the headers categorize_header is given: every literal of the patterns,
\* the headers of the pages, headers in upper case, headers of two words
\* that different groups match, and the empty header
HeaderWords ==
  UNION {{pattern_groups[g].patterns[k].lit : k \in 1..Len(pattern_groups[g].patterns)} :
         g \in 1..Len(pattern_groups)}

HeaderPairWords ==
  {<<"K", "e", "y">>, <<"d", "a", "t", "e">>, <<"o", "p", "u", "s">>, <<"F", "o", "r", "m">>, <<"t", "i", "m", "e">>, <<"n", "o">>}

Headers ==
  HeaderWords
  \cup {HTitle, HKey, HNotes, HInfo, HYear, HOpus, HGenre, HWork, <<>>}
  \cup {<<"B", "W", "V">>, <<"K", ".">>, <<"C", "A", "T", "E", "G", "O", "R", "Y">>, <<"L", "e", "n", "g", "t", "h", " ", "(", "m", "i", "n", "s", ")">>}
  \cup {first \o <<" ">> \o second : first, second \in HeaderPairWords}

\* a table with the header Notes twice, and a table with three headers, a
\* row of five cells and a row of one
CanonTableNotes ==
  <<HeaderRow(<<HTitle, HNotes, HNotes, HInfo>>),
    DataRow(<<Td(TOps, <<>>), Td(TOp, <<>>), Td(TKey, <<>>), Td(T1808, <<>>)>>),
    DataRow(<<Td(TOps, <<HrefSonata>>), Td(TSuite, <<>>), Td(<<>>, <<>>), Td(<<>>, <<>>)>>)>>

CanonTableShort ==
  <<HeaderRow(<<HNotes, HYear, HKey>>),
    DataRow(<<Td(TOp, <<>>), Td(T1808, <<>>), Td(TKey, <<>>), Td(TOps, <<HrefSonata>>),
              Td(TSuite, <<>>)>>),
    DataRow(<<Td(TOp, <<>>), Td(T1808, <<>>), Td(TKey, <<>>), Td(TOps, <<>>),
              Td(TSuite, <<>>)>>),
    DataRow(<<Td(TOps, <<HrefPlain>>)>>)>>

\* a record as serde_json::from_str gives it for a line of a raw file that
\* was not written by get_works: the three lists of any length
ReplayedRecord(headers, cell_data, cell_links) ==
  [composer_name |-> <<"B">>,
   composer_url |-> <<>>,
   source_url |-> <<>>,
   table_index |-> 0,
   row_index |-> 0,
   headers |-> headers,
   cell_data |-> cell_data,
   cell_links |-> cell_links,
   raw_html_snippet |-> <<>>]

\* fewer links than cells, under a title column and under none; more links
\* than cells; no cells
ReplayedInputs ==
  {ReplayedRecord(<<HKey, HTitle>>, <<TKey, TOps>>, <<Some(HrefPlain)>>),
   ReplayedRecord(<<HNotes, HKey>>, <<TOp, TKey, TOps>>, <<None>>),
   ReplayedRecord(<<HTitle>>, <<TOps>>, <<None, Some(HrefPlain), Some(HrefEra)>>),
   ReplayedRecord(<<HTitle, HYear>>, <<>>, <<Some(HrefPlain)>>)}

\* the rows a harvested table is made of: two header rows, a row without
\* cells, two data rows, a row with a header cell and a data cell
HarvestRows ==
  {HeaderRow(<<HTitle, HKey>>),
   HeaderRow(<<HNotes>>),
   [th |-> <<>>, td |-> <<>>],
   DataRow(<<Td(TOps, <<HrefSonata>>), Td(TKey, <<>>)>>),
   DataRow(<<Td(TOp, <<>>)>>),
   [th |-> <<HYear>>, td |-> <<Td(T1808, <<>>)>>]}

\* the tables: up to MaxRows rows
HarvestTables == UNION {[1..n -> HarvestRows] : n \in 0..MaxRows}

\* the table indices get_works passes
TableIndices == {0, 1}

\* the leading tokens of a year text
YearPrefixes ==
  {<<>>,
   <<"c", ".", " ">>,
   <<"c", " ">>,
   <<"C", ".">>,
   <<"f", "l", ".", " ">>,
   <<"F", "l", " ">>,
   <<"b", "o", "r", "n", " ">>,
   <<"B", "o", "r", "n", " ", " ">>,
   <<"c", "a", ".", " ">>}

\* what follows the leading token
YearBodies ==
  {<<"1", "6", "0", "0", "-", "1", "6", "5", "0">>,
   <<"1", "4", "2", "3">>,
   <<"1", "6", "8", "5">>,
   <<"u", "n", "k", "n", "o", "w", "n">>,
   <<"1", "6", "8", "5", " ", "U+2013", " ", "1", "7", "5", "0">>,
   <<"9", "8", "0", "-", "1", "0", "3", "7", "5">>,
   <<"1", "6">>,
   <<"1", "6", "8", "5", "0", "-", "1", "7", "5", "0">>,
   <<"o", "r", " ", "9", "8", "0", ",", " ", "9", "8", "5", "-", "9", "9", "0">>,
   <<"-", "5">>,
   <<"9", "9", "9", "9", "9", "9", "9", "9", "9", "9", "9">>,
   <<"2", "1", "4", "7", "4", "8", "3", "6", "4", "8">>}

\* the text around the year text: none, parentheses, a name before and
\* text after, parentheses with spaces inside, an opening parenthesis alone,
\* a closing parenthesis before the opening one
InParentheses(s) ==
  {s,
   <<"(">> \o s \o <<")">>,
   <<"B", " ", "(">> \o s \o <<")", " ", "(", "x", ")">>,
   <<"(", " ">> \o s \o <<" ", ")">>,
   <<"(">> \o s,
   <<")", "(">> \o s \o <<")">>}

\* the texts extract_years_from_parentheses is called with
YearTexts == UNION {InParentheses(p \o b) : p \in YearPrefixes, b \in YearBodies}
----------------------------------------------------------------------------
(* Composers (composers.rs) *)

\* struct Composer, as read_parse builds it
Composer(name, birth, death, qualifier) ==
  [url |-> WikiPrefix \o replace(name, " ", "_"),
   full_name |-> name,
   list_of_compositions_url |->
     replace(<<"/wiki/List_of_compositions_by_">> \o name, " ", "_"),
   birth_year |-> birth,
   death_year |-> death,
   years_qualifier |-> qualifier]

\* an Option<i32> of a year: null or its digits
json_year(o) == IF o = None THEN <<"null">> ELSE format_usize(o[1])

\* serde_json::to_string(&composer)
to_string_composer(c) ==
  <<"{\"url\":">> \o json_string(c.url)
  \o <<",\"full_name\":">> \o json_string(c.full_name)
  \o <<",\"list_of_compositions_url\":">> \o json_string(c.list_of_compositions_url)
  \o <<",\"birth_year\":">> \o json_year(c.birth_year)
  \o <<",\"death_year\":">> \o json_year(c.death_year)
  \o <<",\"years_qualifier\":">> \o json_string(c.years_qualifier)
  \o <<"}">>

\* the lists read_parse returns for the page of composers
ComposerLists ==
  {<<Composer(<<"A", " ", "B">>, Some(1634), Some(1696), <<"Exact">>),
     Composer(<<"C">>, None, None, <<"AliveToday">>)>>}

----------------------------------------------------------------------------
(* The writer pipelines (works.rs get_works, composers.rs                  *)
(* write_composers_via_channel)                                            *)

VARIABLES
  web,                  \* what the site serves and how often the program is run
  fs,                   \* the files: name -> content
  runs,                 \* invocations so far
  pc,                   \* where the running invocation stands
  subject,              \* composer_name of the running get_works
  result,               \* what the last invocation returned: Ok, Err, none yet
  document,             \* the page fetched, by its name
  table_index,
  raw_data_list,        \* the records of the current table not yet sent
  all_raw_data,
  cursor,               \* how many records the running for loop of stage 2 or
                        \* of write_composers_via_channel has gone through
  canonicalized_count,
  composers,            \* the composers read_parse returned
  tx,                   \* per pipeline: the Sender is alive
  chan,                 \* per pipeline: the queue of the channel
  writer,               \* per pipeline: the writer task
  buf,                  \* per pipeline: the lines held by the BufWriter
  dest,                 \* per pipeline: the file name the writer was given
  errlog,               \* per pipeline: error! lines of failed sends, this run
  sent,                 \* per pipeline: the places, in the list the producer
                        \* goes through, of the records sent with success
  mark,                 \* per pipeline: the length of the file when the writer
                        \* task of this run opened it, -1 before
  canon,                \* a canonicalization in progress (SpecCanon)
  query                 \* a call of one of the pure functions, with its answer

vars ==
  <<web, fs, runs, pc, subject, result, document, table_index, raw_data_list,
    all_raw_data, cursor, canonicalized_count, composers, tx, chan, writer,
    buf, dest, errlog, sent, mark, canon, query>>

Pipes == {"raw", "comp", "composer"}

\* let base_wiki_url = "https://en.wikipedia.org"
BaseWikiUrl == <<"https://en.wikipedia.org">>

\* format!("{}/wiki/List_of_compositions_by_{}", base, name.replace(" ", "_"))
compositions_url(composer_name) ==
  BaseWikiUrl \o <<"/wiki/List_of_compositions_by_">> \o replace(composer_name, " ", "_")

\* format!("{}/wiki/{}", base_wiki_url, composer_name.replace(" ", "_"))
composer_url_of(composer_name) ==
  BaseWikiUrl \o <<"/wiki/">> \o replace(composer_name, " ", "_")

\* format!("raw-info-{}.json", composer_name.replace(" ", "_"))
raw_filename(composer_name) ==
  <<"raw-info-">> \o replace(composer_name, " ", "_") \o <<".json">>

\* the pages the site can serve, by name: Html::parse_document(&html) of each
Pages == ("A" :> DocA) @@ ("B" :> DocB) @@ ("C" :> DocC) @@ ("Long" :> LongDoc)

\* for (table_index, table) in document.select(&table_selector).enumerate():
\* the raw_data_list of each table of a page, computed once for each page
\* and composer name
raw_data_lists ==
  [page \in DOMAIN Pages, composer_name \in Subjects |->
     Collect([i \in 1..Len(Pages[page]) |->
                extract_raw_table_data(Pages[page][i], composer_name,
                                       composer_url_of(composer_name),
                                       compositions_url(composer_name), i - 1)])]
  @@ <<>>

\* every record a page can give
RawRecords ==
  LET lists == raw_data_lists
  IN  UNION {UNION {Range(list) : list \in Range(lists[k])} : k \in DOMAIN lists}

\* let composition = canonicalizer.canonicalize_raw_data(raw_data), computed
\* once for each record
compositions ==
  [raw_data \in RawRecords |-> canonicalize_raw_data(raw_data)] @@ <<>>

CompositionsFile == <<"compositions.json">>

ComposersFile == <<"composers.json">>

\* the content of a file, empty when it does not exist
content(files, name) == IF name \in DOMAIN files THEN files[name] ELSE <<>>

\* the receiver of a pipeline is dropped once its writer task has returned
closed(p) == writer[p] \in {"Ok", "Err"}

\* the state of the locals at the start of an invocation
Fresh ==
  /\ document = "" /\ table_index = 0 /\ raw_data_list = <<>>
  /\ all_raw_data = <<>> /\ cursor = 0 /\ canonicalized_count = 0
  /\ composers = <<>>
  /\ tx = [p \in Pipes |-> FALSE]
  /\ chan = [p \in Pipes |-> <<>>]
  /\ writer = [p \in Pipes |-> "none"]
  /\ buf = [p \in Pipes |-> <<>>]
  /\ dest = [p \in Pipes |-> <<>>]
  /\ errlog = [p \in Pipes |-> 0]
  /\ sent = [p \in Pipes |-> <<>>]

IdleMachines ==
  /\ canon = [pc |-> "off"]
  /\ query = [pc |-> "off"]

InitPipeline(environment) ==
  /\ web = environment
  /\ fs = <<>>
  /\ runs = 0
  /\ pc = "idle"
  /\ subject = <<>>
  /\ result = "none"
  /\ mark = [p \in Pipes |-> -1]
  /\ Fresh

\* one invocation, as main makes it, on any of the pages
Init ==
  /\ InitPipeline([docs |-> {"A", "B"}, subjects |-> Subjects,
                   lists |-> ComposerLists, runs |-> Invocations])
  /\ IdleMachines

\* several invocations in a row for one composer, the site serving one page
\* or another
InitRuns ==
  /\ InitPipeline([docs |-> {"A", "C"}, subjects |-> {<<"I", " ", "S">>},
                   lists |-> ComposerLists, runs |-> MaxRuns])
  /\ IdleMachines

\* the environment of the long page: one subject, one invocation
InitLong ==
  /\ InitPipeline([docs |-> {"Long"}, subjects |-> {<<"B">>},
                   lists |-> ComposerLists, runs |-> Invocations])
  /\ IdleMachines

\* let json_line = serde_json::to_string(&raw_data)?, with the "\n" the writer
\* adds, computed once for each record
raw_lines ==
  [raw_data \in RawRecords |-> {to_string_raw(raw_data) \o <<"\n">>}] @@ <<>>

\* the same for a composition: the keys of additional_info come out in the
\* order the HashMap iterates them, which can be any
composition_lines ==
  [composition \in {compositions[raw_data] : raw_data \in RawRecords} |->
     {to_string_composition(composition, order) \o <<"\n">> :
        order \in KeyOrders(DOMAIN composition.additional_info)}] @@ <<>>

\* the same for a composer
composer_lines ==
  [composer \in UNION {Range(list) : list \in ComposerLists} |->
     {to_string_composer(composer) \o <<"\n">>}] @@ <<>>

\* the lines the writer task of a pipeline can write for a record
Encodings(p, record) ==
  CASE p = "raw" -> raw_lines[record]
    [] p = "comp" -> composition_lines[record]
    [] p = "composer" -> composer_lines[record]

\* tokio::spawn of the writer task of pipeline p on the file name, with the
\* channel mpsc::channel(100) just created
Spawn(p, filename) ==
  /\ writer' = [writer EXCEPT ![p] = "spawned"]
  /\ tx' = [tx EXCEPT ![p] = TRUE]
  /\ chan' = [chan EXCEPT ![p] = <<>>]
  /\ buf' = [buf EXCEPT ![p] = <<>>]
  /\ dest' = [dest EXCEPT ![p] = filename]

\* the locals of an invocation that begins, when no pipeline is spawned yet
NoPipelines ==
  /\ tx' = [p \in Pipes |-> FALSE]
  /\ chan' = [p \in Pipes |-> <<>>]
  /\ writer' = [p \in Pipes |-> "none"]
  /\ buf' = [p \in Pipes |-> <<>>]
  /\ dest' = [p \in Pipes |-> <<>>]

\* what every invocation sets when it begins
Begin(name) ==
  /\ pc = "idle"
  /\ runs < web.runs
  /\ runs' = runs + 1
  /\ subject' = name
  /\ table_index' = 0
  /\ raw_data_list' = <<>>
  /\ all_raw_data' = <<>>
  /\ cursor' = 0
  /\ canonicalized_count' = 0
  /\ errlog' = [p \in Pipes |-> 0]
  /\ sent' = [p \in Pipes |-> <<>>]
  /\ mark' = [p \in Pipes |-> -1]
  /\ UNCHANGED <<web, fs, canon, query>>

\* tx.send(record).await returns Ok: there is room and the receiver is alive
SendOk(p, record, place) ==
  /\ ~closed(p)
  /\ Len(chan[p]) < ChannelCapacity
  /\ chan' = [chan EXCEPT ![p] = Append(@, record)]
  /\ sent' = [sent EXCEPT ![p] = Append(@, place)]

\* tx.send(record).await returns Err: the receiver is dropped
SendErr(p) ==
  /\ closed(p)
  /\ UNCHANGED <<chan, sent>>

\* error!("Error sending .. through channel: {}", e)
LogSendError(p) == errlog' = [errlog EXCEPT ![p] = @ + 1]

(* get_works *)

\* reqwest::get(..).await? or response.text().await? fails
GetWorksFetchFails ==
  \E name \in web.subjects :
    /\ Begin(name)
    /\ NoPipelines
    /\ document' = ""
    /\ composers' = <<>>
    /\ result' = "Err"
    /\ pc' = "idle"

\* the page is fetched and parsed; the raw writer is spawned
GetWorksStart ==
  \E name \in web.subjects, page \in web.docs :
    /\ Begin(name)
    /\ document' = page
    /\ composers' = <<>>
    /\ result' = "none"
    /\ writer' = [p \in Pipes |-> IF p = "raw" THEN "spawned" ELSE "none"]
    /\ tx' = [p \in Pipes |-> p = "raw"]
    /\ chan' = [p \in Pipes |-> <<>>]
    /\ buf' = [p \in Pipes |-> <<>>]
    /\ dest' = [p \in Pipes |-> IF p = "raw" THEN raw_filename(name) ELSE <<>>]
    /\ pc' = "tables"

\* for (table_index, table) in document.select(&table_selector).enumerate()
NextTable ==
  /\ pc = "tables"
  /\ table_index < Len(Pages[document])
  /\ LET list == raw_data_lists[document, subject][table_index + 1]
     IN  /\ raw_data_list' = list
         /\ pc' = IF list = <<>> THEN "tables" ELSE "raw_send"
  /\ table_index' = table_index + 1
  /\ UNCHANGED <<web, fs, document, runs, subject, result, all_raw_data, cursor,
                 canonicalized_count, composers, tx, chan, writer, buf, dest,
                 errlog, sent, mark, canon, query>>

\* the body of for raw_data in raw_data_list, the send returning Ok
RawSendOk ==
  /\ pc = "raw_send"
  /\ SendOk("raw", Head(raw_data_list), Len(all_raw_data) + 1)
  /\ all_raw_data' = Append(all_raw_data, Head(raw_data_list))
  /\ raw_data_list' = Tail(raw_data_list)
  /\ pc' = IF Tail(raw_data_list) = <<>> THEN "tables" ELSE "raw_send"
  /\ UNCHANGED <<web, fs, runs, subject, result, document, table_index, cursor,
                 canonicalized_count, composers, tx, writer, buf, dest, errlog,
                 mark, canon, query>>

\* the send returning Err ends get_works with the error, as a ? would
RawSendErrReturns ==
  /\ pc = "raw_send"
  /\ SendErr("raw")
  /\ tx' = [tx EXCEPT !.raw = FALSE]
  /\ result' = "Err"
  /\ pc' = "idle"
  /\ UNCHANGED <<web, fs, runs, subject, document, table_index, raw_data_list,
                 all_raw_data, cursor, canonicalized_count, composers, writer,
                 buf, dest, errlog, mark, canon, query>>

\* the same, the send returning Err: logged, the record still kept
RawSendErr ==
  /\ pc = "raw_send"
  /\ SendErr("raw")
  /\ LogSendError("raw")
  /\ all_raw_data' = Append(all_raw_data, Head(raw_data_list))
  /\ raw_data_list' = Tail(raw_data_list)
  /\ pc' = IF Tail(raw_data_list) = <<>> THEN "tables" ELSE "raw_send"
  /\ UNCHANGED <<web, fs, runs, subject, result, document, table_index, cursor,
                 canonicalized_count, composers, tx, writer, buf, dest,
                 mark, canon, query>>

\* drop(raw_tx)
DropRawTx ==
  /\ pc = "tables"
  /\ table_index = Len(Pages[document])
  /\ tx' = [tx EXCEPT !.raw = FALSE]
  /\ pc' = "raw_join"
  /\ UNCHANGED <<web, fs, runs, subject, result, document, table_index,
                 raw_data_list, all_raw_data, cursor, canonicalized_count,
                 composers, chan, writer, buf, dest, errlog, sent, mark, canon,
                 query>>

\* the result of the raw writer task is dropped and stage 2 begins all the same
JoinRawIgnoresErr ==
  /\ pc = "raw_join"
  /\ writer.raw = "Err"
  /\ writer' = [writer EXCEPT !.comp = "spawned"]
  /\ tx' = [tx EXCEPT !.comp = TRUE]
  /\ dest' = [dest EXCEPT !.comp = CompositionsFile]
  /\ pc' = "comp_send"
  /\ UNCHANGED <<web, fs, runs, subject, result, document, table_index,
                 raw_data_list, all_raw_data, cursor, canonicalized_count,
                 composers, chan, buf, errlog, sent, mark, canon, query>>

\* raw_writer_handle.await?? with the task's result Err
JoinRawErr ==
  /\ pc = "raw_join"
  /\ writer.raw = "Err"
  /\ result' = "Err"
  /\ pc' = "idle"
  /\ UNCHANGED <<web, fs, runs, subject, document, table_index, raw_data_list,
                 all_raw_data, cursor, canonicalized_count, composers, tx, chan,
                 writer, buf, dest, errlog, sent, mark, canon, query>>

\* raw_writer_handle.await?? with the task's result Ok; stage 2 begins: the
\* composition writer is spawned on compositions.json
JoinRawOk ==
  /\ pc = "raw_join"
  /\ writer.raw = "Ok"
  /\ Spawn("comp", CompositionsFile)
  /\ canonicalized_count' = 0
  /\ pc' = "comp_send"
  /\ UNCHANGED <<web, fs, runs, subject, result, document, table_index,
                 raw_data_list, all_raw_data, cursor, composers, errlog, sent,
                 mark, canon, query>>

\* the composition stage 2 is about to handle
next_composition == compositions[all_raw_data[cursor + 1]]

\* for raw_data in all_raw_data: the title gate rejects the composition
CompSkip ==
  /\ pc = "comp_send"
  /\ cursor < Len(all_raw_data)
  /\ ~title_gate(next_composition)
  /\ cursor' = cursor + 1
  /\ UNCHANGED <<web, fs, runs, pc, subject, result, document, table_index,
                 raw_data_list, all_raw_data, canonicalized_count, composers,
                 tx, chan, writer, buf, dest, errlog, sent, mark, canon, query>>

\* the gate accepts it and the send returns Ok
CompSendOk ==
  /\ pc = "comp_send"
  /\ cursor < Len(all_raw_data)
  /\ title_gate(next_composition)
  /\ SendOk("comp", next_composition, cursor + 1)
  /\ canonicalized_count' = canonicalized_count + 1
  /\ cursor' = cursor + 1
  /\ UNCHANGED <<web, fs, runs, pc, subject, result, document, table_index,
                 raw_data_list, all_raw_data, composers, tx, writer, buf, dest,
                 errlog, mark, canon, query>>

\* the gate accepts it and the send returns Err: logged, not counted
CompSendErr ==
  /\ pc = "comp_send"
  /\ cursor < Len(all_raw_data)
  /\ title_gate(next_composition)
  /\ SendErr("comp")
  /\ LogSendError("comp")
  /\ cursor' = cursor + 1
  /\ UNCHANGED <<web, fs, runs, pc, subject, result, document, table_index,
                 raw_data_list, all_raw_data, canonicalized_count, composers,
                 tx, writer, buf, dest, mark, canon, query>>

\* drop(comp_tx)
DropCompTx ==
  /\ pc = "comp_send"
  /\ cursor = Len(all_raw_data)
  /\ tx' = [tx EXCEPT !.comp = FALSE]
  /\ pc' = "comp_join"
  /\ UNCHANGED <<web, fs, runs, subject, result, document, table_index,
                 raw_data_list, all_raw_data, cursor, canonicalized_count,
                 composers, chan, writer, buf, dest, errlog, sent, mark, canon,
                 query>>

\* comp_writer_handle.await?? and the return of get_works
JoinComp ==
  /\ pc = "comp_join"
  /\ closed("comp")
  /\ result' = writer.comp
  /\ pc' = "idle"
  /\ UNCHANGED <<web, fs, runs, subject, document, table_index, raw_data_list,
                 all_raw_data, cursor, canonicalized_count, composers, tx, chan,
                 writer, buf, dest, errlog, sent, mark, canon, query>>

(* get_composers and write_composers_via_channel *)

\* read_parse(url) returns Err: logged by get_composers, nothing written
ReadParseFails ==
  /\ Begin(<<>>)
  /\ NoPipelines
  /\ document' = ""
  /\ composers' = <<>>
  /\ result' = "Err"
  /\ pc' = "idle"

\* read_parse returns the composers; the composer writer is spawned
WriteComposersStart ==
  \E list \in web.lists :
    /\ Begin(<<>>)
    /\ document' = ""
    /\ composers' = list
    /\ result' = "none"
    /\ writer' = [p \in Pipes |-> IF p = "composer" THEN "spawned" ELSE "none"]
    /\ tx' = [p \in Pipes |-> p = "composer"]
    /\ chan' = [p \in Pipes |-> <<>>]
    /\ buf' = [p \in Pipes |-> <<>>]
    /\ dest' = [p \in Pipes |-> IF p = "composer" THEN ComposersFile ELSE <<>>]
    /\ pc' = "composer_send"

\* tx.send(composer).await returns Ok
ComposerSendOk ==
  /\ pc = "composer_send"
  /\ cursor < Len(composers)
  /\ SendOk("composer", composers[cursor + 1], cursor + 1)
  /\ cursor' = cursor + 1
  /\ UNCHANGED <<web, fs, runs, pc, subject, result, document, table_index,
                 raw_data_list, all_raw_data, canonicalized_count, composers,
                 tx, writer, buf, dest, errlog, mark, canon, query>>

\* tx.send(composer).await.map_err(..)? : the send returns Err and
\* write_composers_via_channel returns the error at once; tx is dropped with
\* the function's frame
ComposerSendErr ==
  /\ pc = "composer_send"
  /\ cursor < Len(composers)
  /\ SendErr("composer")
  /\ tx' = [tx EXCEPT !.composer = FALSE]
  /\ result' = "Err"
  /\ pc' = "idle"
  /\ UNCHANGED <<web, fs, runs, subject, document, table_index, raw_data_list,
                 all_raw_data, cursor, canonicalized_count, composers, writer,
                 buf, dest, errlog, mark, canon, query>>

\* drop(tx)
DropComposerTx ==
  /\ pc = "composer_send"
  /\ cursor = Len(composers)
  /\ tx' = [tx EXCEPT !.composer = FALSE]
  /\ pc' = "composer_join"
  /\ UNCHANGED <<web, fs, runs, subject, result, document, table_index,
                 raw_data_list, all_raw_data, cursor, canonicalized_count,
                 composers, chan, writer, buf, dest, errlog, sent, mark, canon,
                 query>>

\* writer_handle.await?? and the return of write_composers_via_channel
JoinComposer ==
  /\ pc = "composer_join"
  /\ closed("composer")
  /\ result' = writer.composer
  /\ pc' = "idle"
  /\ UNCHANGED <<web, fs, runs, subject, document, table_index, raw_data_list,
                 all_raw_data, cursor, canonicalized_count, composers, tx, chan,
                 writer, buf, dest, errlog, sent, mark, canon, query>>

(* The writer tasks: raw_data_writer_task, composition_writer_task,         *)
(* composer_writer_task                                                     *)

\* what the task leaves behind when it returns: the receiver is dropped with
\* the records still queued, the BufWriter with the lines it still holds
TaskReturns(p, outcome) ==
  /\ writer' = [writer EXCEPT ![p] = outcome]
  /\ chan' = [chan EXCEPT ![p] = <<>>]
  /\ buf' = [buf EXCEPT ![p] = <<>>]

\* every file is opened as compositions.json is, with append(true)
open_append(files, p, filename) ==
  IF filename \notin DOMAIN files THEN (filename :> <<>>) @@ files ELSE files

\* OpenOptions .create(true).write(true) with .truncate(true) for the raw
\* file and .append(true) for the others, then .open(filename)
open_file(files, p, filename) ==
  IF p = "raw" \/ filename \notin DOMAIN files
  THEN (filename :> <<>>) @@ files
  ELSE files

\* the buffered lines reach the file twice
write_through_twice(files, p) ==
  [files EXCEPT ![dest[p]] = @ \o Concat(buf[p]) \o Concat(buf[p])]

\* the bytes of the buffered lines reach the file
write_through(files, p) ==
  [files EXCEPT ![dest[p]] = @ \o Concat(buf[p])]

OtherVars ==
  <<web, runs, pc, subject, result, document, table_index, raw_data_list,
    all_raw_data, cursor, canonicalized_count, composers, tx, dest, errlog,
    sent, canon, query>>

\* .open(filename).await succeeds
WriterOpen(p) ==
  /\ writer[p] = "spawned"
  /\ fs' = open_file(fs, p, dest[p])
  /\ mark' = [mark EXCEPT ![p] = Len(open_file(fs, p, dest[p])[dest[p]])]
  /\ writer' = [writer EXCEPT ![p] = "running"]
  /\ UNCHANGED <<chan, buf>>
  /\ UNCHANGED OtherVars

\* .open(filename).await? fails
WriterOpenFails(p) ==
  /\ writer[p] = "spawned"
  /\ TaskReturns(p, "Err")
  /\ UNCHANGED <<fs, mark>>
  /\ UNCHANGED OtherVars

\* one pass of while let Some(record) = receiver.recv().await: the line and
\* its "\n" go to the BufWriter, which first writes out the lines it holds
\* when it has no room left
WriterWrite(p) ==
  /\ writer[p] = "running"
  /\ chan[p] # <<>>
  /\ \E line \in Encodings(p, Head(chan[p])) :
       IF Len(buf[p]) < BufLines
       THEN /\ buf' = [buf EXCEPT ![p] = Append(@, line)]
            /\ UNCHANGED fs
       ELSE /\ buf' = [buf EXCEPT ![p] = <<line>>]
            /\ fs' = write_through(fs, p)
  /\ chan' = [chan EXCEPT ![p] = Tail(@)]
  /\ UNCHANGED <<writer, mark>>
  /\ UNCHANGED OtherVars

\* writer.write_all(..).await? fails when the buffer has to be written out
WriterWriteFails(p) ==
  /\ writer[p] = "running"
  /\ chan[p] # <<>>
  /\ Len(buf[p]) >= BufLines
  /\ TaskReturns(p, "Err")
  /\ UNCHANGED <<fs, mark>>
  /\ UNCHANGED OtherVars

\* the task flushes and returns Ok(()) as soon as the queue is empty, without
\* waiting for the Senders to be dropped
WriterFlushEarly(p) ==
  /\ writer[p] = "running"
  /\ chan[p] = <<>>
  /\ fs' = write_through(fs, p)
  /\ TaskReturns(p, "Ok")
  /\ UNCHANGED mark
  /\ UNCHANGED OtherVars

\* the task returns Ok(()) at the end of the queue without the flush: the
\* BufWriter is dropped with the lines it holds
WriterReturnsUnflushed(p) ==
  /\ writer[p] = "running"
  /\ chan[p] = <<>>
  /\ ~tx[p]
  /\ TaskReturns(p, "Ok")
  /\ UNCHANGED <<fs, mark>>
  /\ UNCHANGED OtherVars

\* recv() returns None (every Sender dropped, the queue empty), then
\* writer.flush().await succeeds and the task returns Ok(())
WriterFlush(p) ==
  /\ writer[p] = "running"
  /\ chan[p] = <<>>
  /\ ~tx[p]
  /\ fs' = write_through(fs, p)
  /\ TaskReturns(p, "Ok")
  /\ UNCHANGED mark
  /\ UNCHANGED OtherVars

\* the same, writer.flush().await? failing
WriterFlushFails(p) ==
  /\ writer[p] = "running"
  /\ chan[p] = <<>>
  /\ ~tx[p]
  /\ TaskReturns(p, "Err")
  /\ UNCHANGED <<fs, mark>>
  /\ UNCHANGED OtherVars

WriterStep(p) ==
  \/ WriterOpen(p)
  \/ WriterOpenFails(p)
  \/ WriterWrite(p)
  \/ WriterWriteFails(p)
  \/ WriterFlush(p)
  \/ WriterFlushFails(p)

ProducerStep ==
  \/ GetWorksFetchFails
  \/ GetWorksStart
  \/ NextTable
  \/ RawSendOk
  \/ RawSendErr
  \/ DropRawTx
  \/ JoinRawErr
  \/ JoinRawOk
  \/ CompSkip
  \/ CompSendOk
  \/ CompSendErr
  \/ DropCompTx
  \/ JoinComp
  \/ ReadParseFails
  \/ WriteComposersStart
  \/ ComposerSendOk
  \/ ComposerSendErr
  \/ DropComposerTx
  \/ JoinComposer

Next == ProducerStep \/ \E p \in Pipes : WriterStep(p)

Spec == Init /\ [][Next]_vars

SpecRuns == InitRuns /\ [][Next]_vars

\* the writer task on the long page: the disk may refuse the open and the
\* flush
WriterStepLong(p) ==
  \/ WriterOpen(p)
  \/ WriterOpenFails(p)
  \/ WriterWrite(p)
  \/ WriterFlush(p)
  \/ WriterFlushFails(p)

NextLong == ProducerStep \/ \E p \in Pipes : WriterStepLong(p)

\* the invocation that runs is scheduled again and again
ProducerRuns == pc # "idle" /\ ProducerStep

\* the tokio runtime polls every task that can go on: the producer and each
\* writer task
SpecLong ==
  /\ InitLong
  /\ [][NextLong]_vars
  /\ WF_vars(ProducerRuns)
  /\ \A p \in Pipes : WF_vars(WriterStepLong(p))

----------------------------------------------------------------------------
(* canonicalize_raw_data, the HashMap field_mappings visited in any order *)

\* no site, no invocation of the pipelines
NoWeb == [docs |-> {}, subjects |-> {}, lists |-> {}, runs |-> 0]

\* the records get_works calls canonicalize_raw_data with for a table
HarvestedInputs(table) ==
  Range(extract_raw_table_data(table, <<"B">>, composer_url_of(<<"B">>),
                               compositions_url(<<"B">>), 0))

\* the records canonicalize_raw_data is called with: the rows of the three
\* tables by get_works, the replayed records by reprocess_raw_data
CanonInputs ==
  HarvestedInputs(CanonTable) \cup HarvestedInputs(CanonTableNotes)
  \cup HarvestedInputs(CanonTableShort) \cup ReplayedInputs

PipelineVars ==
  <<web, fs, runs, pc, subject, result, document, table_index, raw_data_list,
    all_raw_data, cursor, canonicalized_count, composers, tx, chan, writer,
    buf, dest, errlog, sent, mark>>

InitCanon ==
  /\ InitPipeline(NoWeb)
  /\ query = [pc |-> "off"]
  /\ \E raw_data \in CanonInputs : canon = [pc |-> "called", raw_data |-> raw_data]

\* the Composition is built and the headers are mapped to fields
CanonMapHeaders ==
  /\ canon.pc = "called"
  /\ canon' = [pc |-> "fields",
               raw_data |-> canon.raw_data,
               composition |-> new_composition(canon.raw_data),
               todo |-> mapped_fields(field_mappings(canon.raw_data))]
  /\ UNCHANGED PipelineVars
  /\ UNCHANGED query

\* one pass of for (field, indices) in field_mappings, on whichever key the
\* HashMap yields next
CanonVisitField ==
  /\ canon.pc = "fields"
  /\ \E field \in canon.todo :
       canon' = [canon EXCEPT
                   !.composition = visit_indices(@, canon.raw_data, field,
                                                 field_mappings(canon.raw_data)[field]),
                   !.todo = @ \ {field}]
  /\ UNCHANGED PipelineVars
  /\ UNCHANGED query

\* the map is exhausted: the title fallback, the unmapped columns, the return
CanonReturn ==
  /\ canon.pc = "fields"
  /\ canon.todo = {}
  /\ canon' = [pc |-> "returned",
               raw_data |-> canon.raw_data,
               composition |-> store_unmapped(
                                 title_fallback(canon.composition, canon.raw_data),
                                 canon.raw_data)]
  /\ UNCHANGED PipelineVars
  /\ UNCHANGED query

NextCanon == CanonMapHeaders \/ CanonVisitField \/ CanonReturn

SpecCanon == InitCanon /\ [][NextCanon]_vars

----------------------------------------------------------------------------
(* determine_source_url on the rows of a page *)

\* the rows: up to MaxCells cells
UrlRows == UNION {[1..n -> UrlCells] : n \in 0..MaxCells}

InitUrl ==
  /\ InitPipeline(NoWeb)
  /\ canon = [pc |-> "off"]
  /\ \E cells \in UrlRows : query = [pc |-> "asked", cells |-> cells]

\* determine_source_url(&cells, &a_selector, page_url, base_url)
DetermineSourceUrl ==
  /\ query.pc = "asked"
  /\ query' = [pc |-> "answered",
               cells |-> query.cells,
               url |-> determine_source_url(query.cells, PageUrl, BaseUrl)]
  /\ UNCHANGED PipelineVars
  /\ UNCHANGED canon

NextUrl == DetermineSourceUrl

SpecUrl == InitUrl /\ [][NextUrl]_vars

----------------------------------------------------------------------------
(* categorize_header on the headers of a table *)

InitHeader ==
  /\ InitPipeline(NoWeb)
  /\ canon = [pc |-> "off"]
  /\ \E header \in Headers : query = [pc |-> "header", header |-> header]

\* canonicalizer.categorize_header(header)
CategorizeHeader ==
  /\ query.pc = "header"
  /\ query' = [pc |-> "categorized",
               header |-> query.header,
               field |-> categorize_header(query.header)]
  /\ UNCHANGED PipelineVars
  /\ UNCHANGED canon

NextHeader == CategorizeHeader

SpecHeader == InitHeader /\ [][NextHeader]_vars


\* extract_raw_table_data on its own: a table and its index
InitHarvest ==
  /\ InitPipeline(NoWeb)
  /\ canon = [pc |-> "off"]
  /\ \E table \in HarvestTables, index \in TableIndices :
       query = [pc |-> "table", table |-> table, index |-> index]

\* let raw_data_list = extract_raw_table_data(table, composer_name, ..)
ExtractRawTableData ==
  /\ query.pc = "table"
  /\ query' = [pc |-> "harvested",
               table |-> query.table,
               index |-> query.index,
               raw_data_list |-> extract_raw_table_data(query.table, <<"B">>,
                                                        composer_url_of(<<"B">>),
                                                        compositions_url(<<"B">>),
                                                        query.index)]
  /\ UNCHANGED PipelineVars
  /\ UNCHANGED canon

NextHarvest == ExtractRawTableData

SpecHarvest == InitHarvest /\ [][NextHarvest]_vars

\* extract_years_from_parentheses on its own: the text of a list item
InitYears ==
  /\ InitPipeline(NoWeb)
  /\ canon = [pc |-> "off"]
  /\ \E text \in YearTexts : query = [pc |-> "text", text |-> text]

\* extract_years_from_parentheses(&li_text)
ExtractYears ==
  /\ query.pc = "text"
  /\ query' = [pc |-> "parsed",
               text |-> query.text,
               years |-> extract_years_from_parentheses(query.text)]
  /\ UNCHANGED PipelineVars
  /\ UNCHANGED canon

NextYears == ExtractYears

SpecYears == InitYears /\ [][NextYears]_vars
----------------------------------------------------------------------------
(* C3: termination with a bounded channel *)

\* no task of the invocation is left running
AllTasksReturned == \A p \in Pipes : writer[p] \in {"none", "Ok", "Err"}

----------------------------------------------------------------------------
(* What a run has sent and written *)

\* the records the producer of pipeline p has sent with success, in order
sent_records(p) ==
  CASE p = "raw" ->
         Collect([i \in 1..Len(sent.raw) |-> all_raw_data[sent.raw[i]]])
    [] p = "comp" ->
         Collect([i \in 1..Len(sent.comp) |-> compositions[all_raw_data[sent.comp[i]]]])
    [] p = "composer" ->
         Collect([i \in 1..Len(sent.composer) |-> composers[sent.composer[i]]])

\* the lines the writer task of pipeline p has written to its file in this run
written(p) ==
  IF mark[p] < 0 THEN <<>>
  ELSE lines(SubSeq(content(fs, dest[p]), mark[p] + 1, Len(content(fs, dest[p]))))

\* line k of the file is a serialization of record k, for every line written
WrittenIsPrefixOf(p, records) ==
  /\ Len(written(p)) <= Len(records)
  /\ \A k \in 1..Len(written(p)) :
       Append(written(p)[k], "\n") \in Encodings(p, records[k])

\* the compositions of the records that pass the title gate, in order
gated(records) ==
  LET kept == SelectSeq(records, LAMBDA raw_data : title_gate(compositions[raw_data]))
  IN  Collect([k \in 1..Len(kept) |-> compositions[kept[k]]])

\* the running or last invocation is one of get_works that fetched its page
InGetWorks == document # ""

\* the records the page of the invocation gives, over all its tables
harvest ==
  Concat(raw_data_lists[document, subject])

----------------------------------------------------------------------------
(* C1 *)

\* C1: in the raw and the canonical pipeline of get_works, at every point
\* of a run, the lines the writer task has written in this run are, in order,
\* serializations of a prefix of the records the producer has sent with
\* success
C1_WrittenPrefixOfSent ==
  \A p \in {"raw", "comp"} : WrittenIsPrefixOf(p, sent_records(p))

\* two raw lines are in the file and, in stage 2, a composition is written
\* while another that was sent is not yet
C1_Witness ==
  /\ Len(lines(content(fs, dest.raw))) >= 2
  /\ Len(written("comp")) >= 1
  /\ Len(sent.comp) > Len(written("comp"))

----------------------------------------------------------------------------
(* C2 *)

\* C2: when get_works has returned Ok, both Senders are dropped, both writer
\* tasks have returned Ok with nothing left in a queue or a buffer, no send
\* failed, the raw file holds one line for each harvested record and the
\* canonical file has gained one line for each composition that passed the
\* title gate
C2_OkMeansAllWritten ==
  (pc = "idle" /\ result = "Ok" /\ InGetWorks) =>
    /\ \A p \in {"raw", "comp"} :
         /\ ~tx[p] /\ writer[p] = "Ok" /\ chan[p] = <<>> /\ buf[p] = <<>>
         /\ errlog[p] = 0
    /\ all_raw_data = harvest
    /\ Len(written("raw")) = Len(all_raw_data)
    /\ WrittenIsPrefixOf("raw", all_raw_data)
    /\ Len(written("comp")) = Len(gated(all_raw_data))
    /\ WrittenIsPrefixOf("comp", gated(all_raw_data))

\* get_works has returned Ok on a page with several records, one of them
\* discarded by the gate
C2_Witness ==
  /\ pc = "idle" /\ result = "Ok" /\ InGetWorks
  /\ Len(all_raw_data) >= 2
  /\ Len(gated(all_raw_data)) >= 1
  /\ Len(gated(all_raw_data)) < Len(all_raw_data)

----------------------------------------------------------------------------
(* C4 *)

\* C4: when get_works has returned after a writer task of its run returned
\* Err, it has returned Err; and once the raw writer task has returned Err
\* the composition writer is never spawned and compositions.json is never
\* opened in that run
C4_WriterFailurePropagates ==
  /\ (pc = "idle" /\ InGetWorks /\ (writer.raw = "Err" \/ writer.comp = "Err"))
       => result = "Err"
  /\ (InGetWorks /\ writer.raw = "Err")
       => (writer.comp = "none" /\ mark.comp < 0 /\ pc \notin {"comp_send", "comp_join"})

\* get_works has returned after the raw writer task failed with lines written
C4_Witness ==
  /\ pc = "idle" /\ InGetWorks
  /\ writer.raw = "Err"
  /\ Len(written("raw")) >= 1

----------------------------------------------------------------------------
(* C5 *)

\* each record the producer of pipeline p has come to was either sent or
\* logged as a failed send
AllAttempted(p, total) == Len(sent[p]) + errlog[p] = total

\* C5 as stated: in the raw, the canonical and the composer pipeline alike, a
\* failed send does not end production, so once the producer has returned
\* every record was attempted, each either sent or logged
C5_FailedSendNeverFatal ==
  (pc = "idle") =>
    /\ (writer.raw # "none") => AllAttempted("raw", Len(harvest))
    /\ (writer.comp # "none") => AllAttempted("comp", Len(gated(all_raw_data)))
    /\ (writer.composer # "none") => AllAttempted("composer", Len(composers))

\* C5: in the raw and the canonical pipeline of get_works a failed send is
\* logged, drops that record only and production goes on to attempt every
\* remaining record; in the composer pipeline the first failed send ends
\* write_composers_via_channel with Err, the remaining composers unattempted
\* and nothing logged by the send loop
C5_FailedSendFatalOnlyForComposers ==
  /\ (InGetWorks /\ writer.raw # "none") =>
       /\ AllAttempted("raw", Len(all_raw_data))
       /\ (pc \notin {"tables", "raw_send"}) => all_raw_data = harvest
  /\ (pc = "idle" /\ writer.comp # "none") =>
       AllAttempted("comp", Len(gated(all_raw_data)))
  /\ (writer.composer # "none") =>
       /\ errlog.composer = 0
       /\ sent.composer = [k \in 1..Len(sent.composer) |-> k]
       /\ (pc = "idle" /\ Len(sent.composer) < Len(composers)) =>
            (result = "Err" /\ writer.composer = "Err")

\* get_works has returned after two sends to the raw writer failed, and a
\* run of the composer pipeline can end at a failed send
C5_Witness ==
  /\ pc = "idle" /\ InGetWorks
  /\ errlog.raw >= 2
  /\ Len(sent.raw) >= 1

\* a failed send to the composition writer was followed by another
C5_WitnessComp == pc = "idle" /\ errlog.comp >= 2

----------------------------------------------------------------------------
(* C7 *)

\* the live run returned Ok: the raw file and compositions.json are complete
LiveRunDone == pc = "idle" /\ result = "Ok" /\ InGetWorks

\* C7: after a live run, reprocess_raw_data of the raw file it wrote returns
\* the same compositions, in the same order, as the run sent to the
\* composition writer
C7_ReplayEqualsLive ==
  LiveRunDone =>
    LET replay == reprocess_raw_data(fs, raw_filename(subject))
    IN  replay.ok /\ replay.val = sent_records("comp")

\* the replay differs from the live run in the gate alone: with the gate of
\* the live run applied to what it returns, the two agree
ReplayAgreesUnderLiveGate ==
  LiveRunDone =>
    LET replay == reprocess_raw_data(fs, raw_filename(subject))
    IN  replay.ok /\ SelectSeq(replay.val, title_gate) = sent_records("comp")

----------------------------------------------------------------------------
(* C8 *)

\* the gate as specified: the title has more than MinTitleLen characters
\* (an empty title has none)
gate_in_characters(composition) == CharCount(composition.title) > MinTitleLen

\* C8: a composition is sent to the composition writer if and only if its
\* title has more than 2 characters
C8_GateCountsCharacters ==
  LiveRunDone =>
    \A k \in 1..Len(all_raw_data) :
      (k \in Range(sent.comp)) <=> gate_in_characters(compositions[all_raw_data[k]])

\* what the code does for the titles of the claim's examples
GateOnExamples ==
  LiveRunDone =>
    \A k \in 1..Len(all_raw_data) :
      LET title == compositions[all_raw_data[k]].title
      IN  /\ title = TOp => k \notin Range(sent.comp)
          /\ title = TOps => k \in Range(sent.comp)

----------------------------------------------------------------------------
(* C6 *)

\* s is a prefix of t
IsPrefix(s, t) == Len(s) <= Len(t) /\ SubSeq(t, 1, Len(s)) = s

\* the lines of the raw file of the subject are the records of this run, one
\* line each, and nothing else
RawFileIsThisRun ==
  LET file == lines(content(fs, raw_filename(subject)))
  IN  /\ Len(file) = Len(all_raw_data)
      /\ \A k \in 1..Len(file) :
           Append(file[k], "\n") \in Encodings("raw", all_raw_data[k])

\* C6: over any sequence of runs, after a successful run of get_works the raw
\* file of the subject holds exactly the raw records of that run, and no step
\* changes compositions.json other than by appending to it
C6_RawResetCanonicalAppended ==
  /\ [](LiveRunDone => RawFileIsThisRun)
  /\ [][IsPrefix(content(fs, CompositionsFile), content(fs', CompositionsFile))]_vars

\* a second successful run on a page with fewer rows than an earlier
\* successful run, which left its lines in compositions.json
C6_Witness ==
  /\ LiveRunDone
  /\ runs >= 2
  /\ mark.comp > 0
  /\ document = "C"
  /\ Len(lines(content(fs, CompositionsFile))) >= 2

----------------------------------------------------------------------------
(* C9 *)

\* C9: whatever order the keys of field_mappings are visited in, the
\* Composition returned for a record is the one canonicalize_raw_data gives
\* for it, field for field; so two canonicalizations of a record agree
C9_OrderIndependent ==
  (canon.pc = "returned") =>
    canon.composition = canonicalize_raw_data(canon.raw_data)

\* a record with two columns mapped to the title and four more fields mapped
\* has been canonicalized, its title taken from the second title column
C9_Witness ==
  /\ canon.pc = "returned"
  /\ Len(field_mappings(canon.raw_data)["title"]) = 2
  /\ Cardinality(mapped_fields(field_mappings(canon.raw_data))) = 5
  /\ canon.composition.title = TOps
  /\ canon.composition.key = Some(TKey)

----------------------------------------------------------------------------
(* C10 *)

\* the positions <<cell, anchor>> of the links of a row the selector selects
LinkPositions(cells) ==
  UNION {{<<i, j>> : j \in {n \in 1..Len(cells[i].anchors) :
                              starts_with(cells[i].anchors[n], SelectorPrefix)}} :
         i \in 1..Len(cells)}

\* row order: cell by cell, and link by link within a cell
Earlier(a, b) == a[1] < b[1] \/ (a[1] = b[1] /\ a[2] < b[2])

\* the first position of a non-empty set of positions, in row order
FirstPosition(positions) ==
  CHOOSE a \in positions : \A b \in positions : a = b \/ Earlier(a, b)

\* the link at a position, in absolute form when it is rooted at /wiki/
AbsoluteLink(cells, a) ==
  LET href == cells[a[1]].anchors[a[2]]
  IN  IF SubSeq(href, 1, Len(WikiPrefix)) = WikiPrefix THEN BaseUrl \o href ELSE href

\* the URL the priority order of the claim picks
PriorityChoice(cells, page_url) ==
  LET every == LinkPositions(cells)
      in_first_cell == {a \in every : a[1] = 1}
      positive == {a \in every : is_likely_composition_url(AbsoluteLink(cells, a))}
      not_negative == {a \in every : ~is_likely_non_composition_url(AbsoluteLink(cells, a))}
  IN  IF in_first_cell # {} /\ FirstPosition(in_first_cell) \in positive
      THEN AbsoluteLink(cells, FirstPosition(in_first_cell))
      ELSE IF positive # {} THEN AbsoluteLink(cells, FirstPosition(positive))
      ELSE IF not_negative # {} THEN AbsoluteLink(cells, FirstPosition(not_negative))
      ELSE page_url

\* the row of the example: "Symphony No. 5" with its link, then "1808"
ExampleRow == <<Td(TSymphony, <<HrefSymphony>>), Td(T1808, <<>>)>>

\* C10: determine_source_url returns the first cell's first link when that
\* passes the positive test, else the first link of the row that passes it,
\* else the first link of the row the negative test does not match, else the
\* page URL; a link rooted at /wiki/ comes back with the base URL before it,
\* as for the row of the example
C10_PriorityOrder ==
  (query.pc = "answered") =>
    /\ query.url = PriorityChoice(query.cells, PageUrl)
    /\ (query.cells = ExampleRow) => query.url = BaseUrl \o HrefSymphony

\* the row of the example has been answered
C10_Witness == query.pc = "answered" /\ query.cells = ExampleRow

\* the second, the third and the last strategy answer too
C10_Strategy2 ==
  /\ query.pc = "answered"
  /\ query.cells = <<Td(TOps, <<HrefPlain>>), Td(TOps, <<HrefSonata>>)>>
  /\ query.url = BaseUrl \o HrefSonata

C10_Strategy3 ==
  /\ query.pc = "answered"
  /\ query.cells = <<Td(TOps, <<HrefEra>>), Td(TOps, <<HrefEra, HrefOther>>)>>
  /\ query.url = HrefOther

C10_Fallback ==
  /\ query.pc = "answered"
  /\ query.cells = <<Td(TOps, <<HrefEra>>), Td(TOps, <<HrefExternal>>)>>
  /\ query.url = PageUrl

----------------------------------------------------------------------------
(* C11 *)

\* the row whose only link is /wiki/List_of_compositions_by_Bach
ListRow == <<Td(TOps, <<HrefBach>>)>>

\* C11: for the row whose only link is /wiki/List_of_compositions_by_Bach
\* determine_source_url returns the page URL, and whatever the row, the URL
\* it returns is the page URL or a link the negative-keyword test does not
\* match
C11_NegativeLinkNeverReturned ==
  (query.pc = "answered") =>
    /\ (query.cells = ListRow) => query.url = PageUrl
    /\ \/ query.url = PageUrl
       \/ ~is_likely_non_composition_url(query.url)

\* what the code does with a link the negative test matches: it is returned
\* only when the positive test matches it too
NegativeReturnedOnlyIfPositive ==
  (query.pc = "answered" /\ query.url # PageUrl) =>
    (is_likely_non_composition_url(query.url) => is_likely_composition_url(query.url))

----------------------------------------------------------------------------
(* C18 *)

\* the three-tier classifier: the first link of the row that passes the
\* positive test, else the first the negative test does not match, else the
\* page URL
ThreeTierChoice(cells, page_url) ==
  LET every == LinkPositions(cells)
      positive == {a \in every : is_likely_composition_url(AbsoluteLink(cells, a))}
      not_negative == {a \in every : ~is_likely_non_composition_url(AbsoluteLink(cells, a))}
  IN  IF positive # {} THEN AbsoluteLink(cells, FirstPosition(positive))
      ELSE IF not_negative # {} THEN AbsoluteLink(cells, FirstPosition(not_negative))
      ELSE page_url

\* C18: determine_source_url returns what the classifier without the
\* first-cell step returns, and that is the page URL or the resolved form of
\* a link of the row
C18_FirstCellStepRedundant ==
  (query.pc = "answered") =>
    /\ query.url = ThreeTierChoice(query.cells, PageUrl)
    /\ \/ query.url = PageUrl
       \/ \E a \in LinkPositions(query.cells) : query.url = AbsoluteLink(query.cells, a)

\* a row answered by the first-cell step, with another link after it
C18_Witness ==
  /\ query.pc = "answered"
  /\ query.cells = <<Td(TOps, <<HrefSonata>>), Td(TOps, <<HrefPlain>>)>>
  /\ query.url = BaseUrl \o HrefSonata

\* the row of C11 answered with its link, which the positive test matches
\* on "composition"
C11_ListLinkReturned ==
  /\ query.pc = "answered"
  /\ query.cells = ListRow
  /\ query.url = BaseUrl \o HrefBach
  /\ is_likely_composition_url(query.url)
  /\ is_likely_non_composition_url(query.url)

----------------------------------------------------------------------------
(* C12 *)

\* the eight groups in the order of the claim, each with its alternatives
GroupsInOrder ==
  <<<<"title", title_patterns>>, <<"year", year_patterns>>, <<"key", key_patterns>>,
    <<"opus", opus_patterns>>, <<"genre", genre_patterns>>,
    <<"catalog_number", catalog_patterns>>,
    <<"instrumentation", instrumentation_patterns>>,
    <<"duration", duration_patterns>>>>

\* the header contains one of the alternatives, letter case ignored
GroupMatches(alternatives, header) ==
  \E k \in 1..Len(alternatives) :
    contains(to_lowercase(header), to_lowercase(alternatives[k].lit))

\* the groups that match a header, by their place in the order
MatchingGroups(header) ==
  {g \in 1..Len(GroupsInOrder) : GroupMatches(GroupsInOrder[g][2], header)}

\* C12: categorize_header gives a header the field of the first group, in
\* the order title, year, key, opus, genre, catalog_number, instrumentation,
\* duration, that matches it with letter case ignored, and no field when no
\* group matches
C12_FirstGroupWins ==
  (query.pc = "categorized") =>
    LET hits == MatchingGroups(query.header)
    IN  IF hits = {} THEN query.field = None
        ELSE \E g \in hits :
               /\ \A h \in hits : g <= h
               /\ query.field = Some(GroupsInOrder[g][1])

\* a header that the groups year and key (and opus, by its k) match has been
\* given year
C12_Witness ==
  /\ query.pc = "categorized"
  /\ query.header = <<"K", "e", "y", " ", "d", "a", "t", "e">>
  /\ Cardinality(MatchingGroups(query.header)) >= 2
  /\ query.field = Some("year")

\* a header no group matches stays without a field
C12_Unmapped == query.pc = "categorized" /\ query.header = HNotes /\ query.field = None


\* the positions of the headers that classify as title
TitleColumns(raw_data) ==
  {i \in 1..Len(raw_data.headers) : categorize_header(raw_data.headers[i]) = Some("title")}

\* the title columns that have a cell, and a non-empty one
ValuedTitleColumns(raw_data) ==
  {i \in TitleColumns(raw_data) : i <= Len(raw_data.cell_data) /\ raw_data.cell_data[i] # <<>>}

\* the non-empty cells that have a link
LinkedCells(raw_data) ==
  {i \in 1..Len(raw_data.cell_data) :
     /\ raw_data.cell_data[i] # <<>>
     /\ i <= Len(raw_data.cell_links)
     /\ raw_data.cell_links[i] # None}

\* the link aligned with a cell, None where the record has none for it
AlignedLink(raw_data, i) ==
  IF i <= Len(raw_data.cell_links) THEN raw_data.cell_links[i] ELSE None

\* the title and the work URL as the three cases of the title resolution
\* give them
ResolvedTitle(raw_data) ==
  IF ValuedTitleColumns(raw_data) # {}
  THEN LET i == CHOOSE c \in ValuedTitleColumns(raw_data) :
                  \A d \in ValuedTitleColumns(raw_data) : c <= d
       IN  [title |-> raw_data.cell_data[i], work_url |-> AlignedLink(raw_data, i)]
  ELSE IF LinkedCells(raw_data) # {}
  THEN LET i == CHOOSE c \in LinkedCells(raw_data) : \A d \in LinkedCells(raw_data) : c <= d
       IN  [title |-> raw_data.cell_data[i], work_url |-> raw_data.cell_links[i]]
  ELSE [title |-> <<>>, work_url |-> None]

\* C13: the title canonicalize_raw_data returns is the first non-empty cell,
\* in column order, of the columns whose header classifies as title, with the
\* link aligned to that cell (none if it has none) as work URL; where no such
\* column has a value it is the first non-empty cell that has a link, with
\* that link; where there is neither, the title is empty and the work URL
\* absent.
C13_TitleResolution ==
  (canon.pc = "returned") =>
    /\ canon.composition.title = ResolvedTitle(canon.raw_data).title
    /\ canon.composition.work_url = ResolvedTitle(canon.raw_data).work_url

\* a record with title columns but no value in them, and a linked cell after
\* an unlinked non-empty one, has been given the linked cell as title
C13_Witness ==
  /\ canon.pc = "returned"
  /\ TitleColumns(canon.raw_data) # {}
  /\ ValuedTitleColumns(canon.raw_data) = {}
  /\ \E i \in LinkedCells(canon.raw_data) :
       /\ \E j \in 1..(i - 1) : canon.raw_data.cell_data[j] # <<>>
       /\ canon.composition.title = canon.raw_data.cell_data[i]
       /\ canon.composition.work_url = canon.raw_data.cell_links[i]

\* a record whose second title column is the first with a value
C13_SecondTitleColumn ==
  /\ canon.pc = "returned"
  /\ \E i \in ValuedTitleColumns(canon.raw_data) :
       /\ \E j \in TitleColumns(canon.raw_data) : j < i
       /\ \A j \in ValuedTitleColumns(canon.raw_data) : i <= j
  /\ canon.composition.title # <<>>

\* a record with neither a title value nor a linked cell
C13_NoTitle ==
  /\ canon.pc = "returned"
  /\ canon.raw_data.cell_data # <<>>
  /\ canon.composition.title = <<>>
  /\ canon.composition.work_url = None

\* the positions that have both a header and a cell, the header classifying
\* into no group and the cell not empty
UnmappedPositions(raw_data) ==
  {k \in 1..Min({Len(raw_data.headers), Len(raw_data.cell_data)}) :
     /\ categorize_header(raw_data.headers[k]) = None
     /\ raw_data.cell_data[k] # <<>>}

\* C14: after canonicalize_raw_data, additional_info holds the pair (header,
\* cell) of every position whose header classifies into no group and whose
\* cell is not empty, also where the same header text stands at several
\* positions, and it has no entry for a header that classifies into a group
\* or whose cell is empty.
C14_UnmappedRetention ==
  (canon.pc = "returned") =>
    LET info == canon.composition.additional_info
        raw_data == canon.raw_data
    IN  /\ \A k \in UnmappedPositions(raw_data) :
             /\ raw_data.headers[k] \in DOMAIN info
             /\ info[raw_data.headers[k]] = raw_data.cell_data[k]
        /\ \A header \in DOMAIN info :
             \E k \in UnmappedPositions(raw_data) : raw_data.headers[k] = header

\* what the code keeps: one entry for each unmapped header text with a
\* non-empty cell, holding the cell of the last such position, and no other
\* entry
UnmappedLastKept ==
  (canon.pc = "returned") =>
    LET info == canon.composition.additional_info
        raw_data == canon.raw_data
    IN  /\ \A k \in UnmappedPositions(raw_data) :
             /\ raw_data.headers[k] \in DOMAIN info
             /\ (\A j \in UnmappedPositions(raw_data) :
                   raw_data.headers[j] = raw_data.headers[k] => j <= k)
                  => info[raw_data.headers[k]] = raw_data.cell_data[k]
        /\ \A header \in DOMAIN info :
             \E k \in UnmappedPositions(raw_data) : raw_data.headers[k] = header

\* a record with the same unmapped header at two positions and two different
\* cells under it has been returned with the first pair missing
C14_DuplicateHeaderLost ==
  /\ canon.pc = "returned"
  /\ \E j, k \in UnmappedPositions(canon.raw_data) :
       /\ j < k
       /\ canon.raw_data.headers[j] = canon.raw_data.headers[k]
       /\ canon.raw_data.cell_data[j] # canon.raw_data.cell_data[k]
       /\ canon.composition.additional_info[canon.raw_data.headers[j]]
            # canon.raw_data.cell_data[j]

\* the record without the cells and the links beyond its last header
Truncated(raw_data) ==
  [raw_data EXCEPT
     !.cell_data = SubSeq(@, 1, Min({Len(@), Len(raw_data.headers)})),
     !.cell_links = SubSeq(@, 1, Min({Len(@), Len(raw_data.headers)}))]

\* no slot of the composition holds the trace of a panic
NoPanic(composition) ==
  /\ composition.title # Panic
  /\ composition.work_url \notin {Panic, Some(Panic)}
  /\ \A field \in Fields \ {"title"} : composition[field] \notin {Panic, Some(Panic)}
  /\ \A header \in DOMAIN composition.additional_info :
       composition.additional_info[header] # Panic

C15_MoreHeaders ==
  /\ canon.pc = "returned"
  /\ Len(canon.raw_data.headers) > Len(canon.raw_data.cell_data)
  /\ canon.raw_data.cell_data # <<>>
  /\ canon.composition.title # <<>>

\* a record with fewer links than cells has been returned, its title taken
\* from a cell that has no entry in the links
C15_FewerLinks ==
  /\ canon.pc = "returned"
  /\ \E i \in ValuedTitleColumns(canon.raw_data) :
       /\ i > Len(canon.raw_data.cell_links)
       /\ canon.composition.title = canon.raw_data.cell_data[i]
  /\ canon.composition.work_url = None

\* a record has been returned whose title is a cell beyond its last header
C15_FallbackTakesExcessCell ==
  /\ canon.pc = "returned"
  /\ \E i \in (Len(canon.raw_data.headers) + 1)..Len(canon.raw_data.cell_data) :
       /\ LinkedCells(canon.raw_data) # {}
       /\ \A j \in LinkedCells(canon.raw_data) : i <= j
       /\ canon.composition.title = canon.raw_data.cell_data[i]

\* the positions of the rows that have at least one data cell
AcceptedRows(table) == {r \in 1..Len(table) : table[r].td # <<>>}

\* the n-th accepted row of the table
AcceptedRow(table, n) ==
  CHOOSE r \in AcceptedRows(table) :
    Cardinality({s \in AcceptedRows(table) : s < r}) = n - 1

\* C16: extract_raw_table_data gives one record for each row that has a
\* data cell, in row order, with the row indices 0, 1, 2, .. without gaps;
\* each record has the table index given, the same headers as the others,
\* and as many links as cells, the link at a position being that of the cell
\* at the position.
C16_OneRecordPerDataRow ==
  (query.pc = "harvested") =>
    LET table == query.table
        records == query.raw_data_list
    IN  /\ Len(records) = Cardinality(AcceptedRows(table))
        /\ \A n \in 1..Len(records) :
             LET cells == table[AcceptedRow(table, n)].td
             IN  /\ records[n].row_index = n - 1
                 /\ records[n].table_index = query.index
                 /\ records[n].headers = records[1].headers
                 /\ Len(records[n].cell_data) = Len(cells)
                 /\ Len(records[n].cell_links) = Len(records[n].cell_data)
                 /\ \A i \in 1..Len(cells) :
                      /\ records[n].cell_data[i] = trim(cells[i].text)
                      /\ (records[n].cell_links[i] = None) <=> (cells[i].anchors = <<>>)

\* a table whose second row has no data cell and whose first and third rows
\* have some has given two records, with the row indices 0 and 1
C16_Witness ==
  /\ query.pc = "harvested"
  /\ Len(query.table) = 3
  /\ AcceptedRows(query.table) = {1, 3}
  /\ query.index = 1
  /\ Len(query.raw_data_list) = 2
  /\ query.raw_data_list[2].row_index = 1
  /\ query.raw_data_list[2].cell_links # query.raw_data_list[1].cell_links

\* positions p..a and c..d of s hold a year range that starts at p: 3 or 4
\* digits, white space, a hyphen or an en dash, white space, and 3 or 4
\* digits, as many as there are up to 4
IsYearRange(s, p, a, c, d) ==
  /\ 1 <= p /\ a < c /\ d <= Len(s)
  /\ (a - p + 1) \in 3..4 /\ (d - c + 1) \in 3..4
  /\ \A i \in (p..a) \cup (c..d) : IsDigit(s[i])
  /\ \E b \in (a + 1)..(c - 1) :
       /\ s[b] \in {"-", "U+2013"}
       /\ \A i \in ((a + 1)..(b - 1)) \cup ((b + 1)..(c - 1)) : s[i] \in {" ", "\t", "\n", "\r"}
  /\ (d - c + 1 = 4) \/ d = Len(s) \/ ~IsDigit(s[d + 1])

\* the year ranges of s, as <<p, a, c, d>>
YearRanges(s) ==
  LET spans == {r \in (1..Len(s)) \X (2..3) \X (1..Len(s)) \X (2..3) :
                  IsYearRange(s, r[1], r[1] + r[2], r[3], r[3] + r[4])}
  IN  {<<r[1], r[1] + r[2], r[3], r[3] + r[4]>> : r \in spans}

\* the starts of the numbers of 3 or 4 digits in s
SingleYears(s) ==
  {p \in 1..(Len(s) - 2) : \A i \in p..(p + 2) : IsDigit(s[i])}

\* the value of a sequence of at most nine digits
YearValue(digits) == parse_usize_at(digits, Len(digits))

\* the first year range of s, else its first single year, with the
\* qualifiers given; None when s has neither
RangeOrSingle(s, approximate, flourished) ==
  IF YearRanges(s) # {}
  THEN LET r == CHOOSE x \in YearRanges(s) : \A y \in YearRanges(s) : x[1] <= y[1]
       IN  Some([birth_year |-> Some(YearValue(SubSeq(s, r[1], r[2]))),
                 death_year |-> Some(YearValue(SubSeq(s, r[3], r[4]))),
                 approximate |-> approximate,
                 flourished |-> flourished])
  ELSE IF SingleYears(s) # {}
  THEN LET p == CHOOSE x \in SingleYears(s) : \A y \in SingleYears(s) : x <= y
           q == IF p + 3 <= Len(s) /\ IsDigit(s[p + 3]) THEN p + 3 ELSE p + 2
       IN  Some([birth_year |-> Some(YearValue(SubSeq(s, p, q))),
                 death_year |-> None,
                 approximate |-> approximate,
                 flourished |-> flourished])
  ELSE None

\* d is a sequence of ten digits that writes a number up to that of limit
AtMostLimit(d, limit) ==
  \/ d = limit
  \/ \E k \in 1..10 :
       /\ SubSeq(d, 1, k - 1) = SubSeq(limit, 1, k - 1)
       /\ DigitValue(d[k]) < DigitValue(limit[k])

\* r writes an integer of 32 bits: an optional sign and digits
IsInteger(r) ==
  \E sign \in {<<>>, <<"+">>, <<"-">>} :
    \E n \in 1..Len(r) :
      /\ r = sign \o SubSeq(r, Len(r) - n + 1, Len(r))
      /\ \A i \in (Len(r) - n + 1)..Len(r) : IsDigit(r[i])
      /\ LET sig == significant(SubSeq(r, Len(r) - n + 1, Len(r)))
         IN  \/ Len(sig) <= 9
             \/ Len(sig) = 10 /\ AtMostLimit(sig, format_usize(I32Max))

\* the integer r writes
IntegerValue(r) ==
  IF r[1] = "-" THEN 0 - YearValue(Tail(r))
  ELSE IF r[1] = "+" THEN YearValue(Tail(r))
  ELSE YearValue(r)

\* s begins with the token
Leads(s, token) == Len(token) <= Len(s) /\ SubSeq(s, 1, Len(token)) = token

\* the years of a trimmed, lower-case text by its leading token
YearsByLeadingToken(s) ==
  IF Leads(s, <<"c", ".">>) \/ Leads(s, <<"c", " ">>)
  THEN RangeOrSingle(s, TRUE, FALSE)
  ELSE IF Leads(s, <<"f", "l", ".">>) \/ Leads(s, <<"f", "l", " ">>)
  THEN RangeOrSingle(s, FALSE, TRUE)
  ELSE IF Leads(s, <<"b", "o", "r", "n", " ">>)
  THEN LET r == trim(SubSeq(s, 6, Len(s)))
       IN  IF IsInteger(r)
           THEN Some([birth_year |-> Some(IntegerValue(r)), death_year |-> None,
                      approximate |-> FALSE, flourished |-> FALSE])
           ELSE None
  ELSE RangeOrSingle(s, FALSE, FALSE)

TextCirca == <<"c", ".", " ", "1", "6", "0", "0", "-", "1", "6", "5", "0">>

TextFlourished == <<"f", "l", ".", " ", "1", "4", "2", "3">>

TextBorn == <<"b", "o", "r", "n", " ", "1", "6", "8", "5">>

TextUnknown == <<"u", "n", "k", "n", "o", "w", "n">>

\* the results the examples name
ExampleYears(s) ==
  /\ s = TextCirca =>
       query.years = Some([birth_year |-> Some(1600), death_year |-> Some(1650),
                           approximate |-> TRUE, flourished |-> FALSE])
  /\ s = TextFlourished =>
       query.years = Some([birth_year |-> Some(1423), death_year |-> None,
                           approximate |-> FALSE, flourished |-> TRUE])
  /\ s = TextBorn =>
       query.years = Some([birth_year |-> Some(1685), death_year |-> None,
                           approximate |-> FALSE, flourished |-> FALSE])
  /\ s = TextUnknown => query.years = None

Enclosed(s) ==
  LET opens == {i \in 1..Len(s) : s[i] = "("}
      closes == {j \in 1..Len(s) : s[j] = ")"}
  IN  IF opens = {} \/ {j \in closes : j > Min(opens)} = {} THEN None
      ELSE Some(to_lowercase(trim(SubSeq(s, Min(opens) + 1,
                                         Min({j \in closes : j > Min(opens)}) - 1))))

C17_Born ==
  /\ query.pc = "parsed"
  /\ Enclosed(query.text) = Some(TextBorn)
  /\ query.years = Some([birth_year |-> Some(1685), death_year |-> None,
                         approximate |-> FALSE, flourished |-> FALSE])

C17_BornNotInteger ==
  /\ query.pc = "parsed"
  /\ Enclosed(query.text) = Some(<<"b", "o", "r", "n", " ">> \o TextUnknown)
  /\ query.years = None

\* "born 1685" without parentheses has been parsed to nothing
C17_NoParentheses ==
  /\ query.pc = "parsed"
  /\ query.text = TextBorn
  /\ query.years = None
====
